---- MODULE Spec2Model ----
(***************************************************************************)
(* The process supervisor of templates/entrypoint.ts: main, the service   *)
(* launcher startService with its timers and child exits, and the          *)
(* preCommand allow-list validatePreCommand.                               *)
(*                                                                         *)
(* Strings the code inspects (preCommand, condition) are sequences of      *)
(* one-character strings, so that trim, startsWith, slice and the regular  *)
(* expression are computed character by character.                         *)
(*                                                                         *)
(* Time is counted in seconds.  A timer is the number of seconds left      *)
(* until its callback is due; Tick lets one second pass and is disabled    *)
(* while a callback is due, and a handler takes no time.                   *)
(***************************************************************************)
EXTENDS Integers, Sequences, FiniteSets, TLC

VARIABLES
    proc,          \* the supervisor process: "boot", "startupDelay", "up", and once
                   \* it is gone "exited" (a signal), "drained", "crashed"
    status,        \* its exit status: <<>> while it lives
    disk,          \* the state files maintenance looks at, and the mode of CONFIG_DIR
    maint,         \* what the maintenance of this boot did, in order
    denied,        \* the file operations the filesystem refuses during this boot
    boots,         \* how many times the process has been started on this disk
    warned,        \* the warning about services.json has been logged
    bootLog,       \* the steps of boot this process has made, in order
    env,           \* process.env.STARTUP_DELAY: <<>> when unset, else <<string>>
    skillDirs,     \* /app/skills and /skills-custom as boot finds them
    skillRun,      \* what setupSkills of this boot did
    startupDelay,  \* parseInt(process.env.STARTUP_DELAY || "0", 10), NaN held as 0
    bootLeft,      \* seconds left of main's startup-delay timer
    servicesFile,  \* services.json: <<>> when the file is missing, else <<content>>
    files,         \* the paths that exist (what existsSync answers for conditions)
    services,      \* the descriptors startService was called on, gateway first
    rt,            \* per service: pending timers, live children, what an attempt did
    running,       \* the start attempt a callback is in the middle of, <<>> between callbacks
    watch,         \* seconds since a watched path appeared and stayed; -1: no watch
    cmd,           \* the string handed to validatePreCommand (validator runs)
    verdict        \* its answer: "none", "accepted", "rejected"

vars == <<proc, status, disk, maint, denied, boots, warned, bootLog, env, skillDirs, skillRun,
          startupDelay, bootLeft, servicesFile,
          files, services, rt, running, watch, cmd, verdict>>

----------------------------------------------------------------------------
(* Optional fields of ServiceConfig: <<>> is undefined, <<v>> is the value. *)

None == <<>>

Some(v) == <<v>>

\* a ?? d
Nullish(o, d) == IF o = None THEN d ELSE o[1]

----------------------------------------------------------------------------
(* Characters and literals.                                                *)

\* what \s of the regular expression and String.prototype.trim strip
IsSpace(c) == c \in {" ", "\t", "\n"}

\* the backquote character, which a TLA+ string cannot hold
Backquote == "BQ"

\* the class [^\s;&|$()] with the backquote in it: any character but a space or
\* one of ; & | $ ( ) and the backquote
InPathClass(c) == ~IsSpace(c) /\ c \notin {";", "&", "|", Backquote, "$", "(", ")"}

LitChmod == <<"c", "h", "m", "o", "d">>

LitDashR == <<"-", "R">>

LitMode == <<"a", "+", "r", "w">>

LitHome == <<"/", "h", "o", "m", "e", "/", "n", "o", "d", "e", "/">>

LitDevNull == <<"2", ">", "/", "d", "e", "v", "/", "n", "u", "l", "l">>

LitOrOr == <<"|", "|">>

LitTrue == <<"t", "r", "u", "e">>

LitFile == <<"f", "i", "l", "e", ":">>

\* s.startsWith(lit)
StartsWith(s, lit) == Len(s) >= Len(lit) /\ SubSeq(s, 1, Len(lit)) = lit

\* s.slice(n)
Slice(s, n) == SubSeq(s, n + 1, Len(s))

\* s.trim()
RECURSIVE TrimStart(_)
TrimStart(s) == IF s # <<>> /\ IsSpace(Head(s)) THEN TrimStart(Tail(s)) ELSE s

RECURSIVE TrimEnd(_)
TrimEnd(s) ==
    IF s # <<>> /\ IsSpace(s[Len(s)]) THEN TrimEnd(SubSeq(s, 1, Len(s) - 1)) ELSE s

Trim(s) == TrimEnd(TrimStart(s))

IsDigit(c) == c \in {"0", "1", "2", "3", "4", "5", "6", "7", "8", "9"}

DigitValue(c) ==
    CASE c = "0" -> 0 [] c = "1" -> 1 [] c = "2" -> 2 [] c = "3" -> 3 [] c = "4" -> 4
      [] c = "5" -> 5 [] c = "6" -> 6 [] c = "7" -> 7 [] c = "8" -> 8 [] c = "9" -> 9

\* the longest run of decimal digits s starts with
RECURSIVE DigitsPrefix(_)
DigitsPrefix(s) ==
    IF s # <<>> /\ IsDigit(Head(s)) THEN <<Head(s)>> \o DigitsPrefix(Tail(s)) ELSE <<>>

\* the number a run of decimal digits denotes
RECURSIVE Decimal(_)
Decimal(ds) ==
    IF ds = <<>> THEN 0 ELSE 10 * Decimal(SubSeq(ds, 1, Len(ds) - 1)) + DigitValue(ds[Len(ds)])

\* parseInt(s, 10): leading white space is skipped, one sign is taken, then
\* the digits up to the first character that is none; NaN, the result when
\* there is no digit, is <<>>
parseInt(s) ==
    LET t == TrimStart(s)
        neg == t # <<>> /\ Head(t) = "-"
        body == IF t # <<>> /\ Head(t) \in {"-", "+"} THEN Tail(t) ELSE t
        ds == DigitsPrefix(body)
    IN  IF ds = <<>> THEN <<>> ELSE <<(IF neg THEN -1 ELSE 1) * Decimal(ds)>>

----------------------------------------------------------------------------
(* The regular expression, run as a position automaton: a set of positions *)
(* P holds every index of s at which the next part of the pattern may      *)
(* start.                                                                  *)

\* a literal
AfterLit(s, P, lit) ==
    {p + Len(lit) : p \in {q \in P : q + Len(lit) - 1 <= Len(s)
                                     /\ SubSeq(s, q, q + Len(lit) - 1) = lit}}

\* \s+
AfterSpaces(s, P) ==
    {q \in 2..(Len(s) + 1) : \E p \in P : p < q /\ \A k \in p..(q - 1) : IsSpace(s[k])}

\* one or more characters of the path class
AfterPath(s, P) ==
    {q \in 2..(Len(s) + 1) : \E p \in P : p < q /\ \A k \in p..(q - 1) : InPathClass(s[k])}

\* ^chmod \s+ -R \s+ a\+rw \s+ /home/node/ PATHCLASS+ ( \s+ 2>/dev/null \s+ \|\| \s+ true )? $
ALLOWED_PRECMD(s) ==
    LET pChmod == AfterLit(s, {1}, LitChmod)
        pFlag  == AfterLit(s, AfterSpaces(s, pChmod), LitDashR)
        pMode  == AfterLit(s, AfterSpaces(s, pFlag), LitMode)
        pHome  == AfterLit(s, AfterSpaces(s, pMode), LitHome)
        pPath  == AfterPath(s, pHome)
        pNull  == AfterLit(s, AfterSpaces(s, pPath), LitDevNull)
        pOr    == AfterLit(s, AfterSpaces(s, pNull), LitOrOr)
        pTrue  == AfterLit(s, AfterSpaces(s, pOr), LitTrue)
    IN  (Len(s) + 1) \in (pPath \cup pTrue)

validatePreCommand(c) == ALLOWED_PRECMD(Trim(c))

----------------------------------------------------------------------------
(* Program constants.                                                      *)

\* the interval the README gives: 60 seconds
PollIntervalReadme == 60

\* setTimeout(() => startService(svc, attempt + 1), 30_000)
PollInterval == 30

\* svc.restartDelay ?? 5
DefaultRestartDelay == 5

\* attempt % 10
LogEvery == 10

\* the uid of a child spawned without the uid option: that of the supervisor
InheritedUid == 0

NODE_UID == 1000

NODE_GID == 1000

NODE_HOME == "/home/node"

\* the uid of the supervisor itself: it runs as PID 1 (root)
ROOT_UID == 0

----------------------------------------------------------------------------
(* Bounds of the model.                                                    *)

\* non-zero exits (crashes) over all services in one run
MaxCrashes == 2

\* path pieces after /home/node/ in a generated preCommand (validator runs)
MaxPathPieces == 2

\* starts of the process on one disk
MaxBoots == 2

\* characters of a generated value of STARTUP_DELAY
MaxEnvLen == 3

\* seconds a preCommand takes at most
MaxPreSeconds == 2

----------------------------------------------------------------------------
(* Service descriptors.                                                    *)

ReadyPath == <<"/", "r">>

\* a path nothing ever creates
AbsentPath == <<"/", "n">>

\* the paths the environment creates and removes
FilePaths == {ReadyPath}

\* condition strings: file:/r, a bare path (no recognised type), the empty string
CondFile == LitFile \o ReadyPath

CondNever == LitFile \o AbsentPath

CondBare == ReadyPath

CondEmpty == <<>>

\* chmod -R a+rw /home/node/d
PreSafe == LitChmod \o <<" ">> \o LitDashR \o <<" ">> \o LitMode \o <<" ">> \o LitHome \o <<"d">>

\* chmod -R a+rw /home/node/d; id
PreUnsafe == PreSafe \o <<";", " ", "i", "d">>

\* the gateway of startAllServices
gateway ==
    [name |-> "gateway", command |-> "cd /app && node dist/index.js gateway",
     condition |-> None, preCommand |-> None,
     restartDelay |-> Some(1), startDelay |-> None]

Declared(cond, pre, rd, sd) ==
    [name |-> "svc", command |-> "run-svc",
     condition |-> cond, preCommand |-> pre, restartDelay |-> rd, startDelay |-> sd]

\* the JSON value null as an entry of the array: reading svc.name of it throws
NullEntry ==
    [name |-> "null", command |-> "null",
     condition |-> None, preCommand |-> None, restartDelay |-> None, startDelay |-> None]

\* the entries services.json may hold
Descriptors ==
    {Declared(c, p, rd, sd) :
        c \in {None, Some(CondBare), Some(CondEmpty)},
        p \in {None, Some(PreSafe), Some(PreUnsafe), Some(<<>>)},
        rd \in {None, Some(0), Some(2)},
        sd \in {None, Some(0), Some(2)}}
    \cup
    {Declared(Some(CondFile), x[1], x[2], x[3]) :
        x \in {<<None, None, None>>,
               <<Some(PreSafe), Some(0), Some(2)>>,
               <<Some(PreUnsafe), Some(2), None>>}}
    \cup
    {Declared(Some(CondNever), Some(PreSafe), Some(0), Some(2))}

\* the text of services.json: a JSON array of entries, or text JSON.parse
\* throws on (or the JSON of a value for ... of cannot iterate)
ArrayOf(list) == [json |-> "array", items |-> list]

Unparsable == [json |-> "invalid", items |-> <<>>]

\* services.json: missing, unparsable, or a list of entries
ServiceFiles ==
    {None, Some(ArrayOf(<<>>)), Some(Unparsable)}
    \cup {Some(ArrayOf(<<d>>)) : d \in Descriptors}

\* what spawn makes of the shell: a child, or an 'error' event on the child
\* object when the process cannot be created (EAGAIN, ENOENT, EACCES)
SpawnOutcomes == {"ok", "error"}

\* the state files: the legacy and the current allow-list of the telegram
\* channel (absent, or their content), the lock of wacli, the mode of CONFIG_DIR
Disks ==
    [legacy : {None, Some("old list")},
     current : {None, Some("new list")},
     lock : BOOLEAN,
     mode : {"0755", "0700"}]

\* a state directory with nothing for maintenance to do
CleanDisk == [legacy |-> None, current |-> Some("new list"), lock |-> FALSE, mode |-> "0700"]

\* the calls of maintenance that can throw: rmSync, renameSync, chmodSync
FileOps == {"rm", "rename", "chmod"}

\* what 'exit' hands to the listener: (code, null) or (null, signal)
ExitEvents ==
    {[code |-> Some(0), signal |-> None],
     [code |-> Some(1), signal |-> None],
     [code |-> None, signal |-> Some("SIGKILL")]}

----------------------------------------------------------------------------
(* The launcher.                                                           *)

\* a service instance before its first startService
NewInstance ==
    [timer |-> "none", left |-> 0, timers |-> 0, attempt |-> 0, child |-> FALSE, children |-> 0,
     spawns |-> 0, preRuns |-> 0, blocked |-> 0, crashes |-> 0,
     steps |-> <<>>, preExit |-> None, preUid |-> None, childUid |-> None,
     childGid |-> None, childHome |-> None, lastExit |-> None, spawnError |-> FALSE]

\* a string used as an if-condition: defined and not empty
Truthy(o) == o # None /\ o[1] # <<>>

\* the same with the ! of !existsSync(file) dropped
ConditionInverted(svc, fsNow) ==
    /\ svc.condition # None
    /\ StartsWith(svc.condition[1], LitFile)
    /\ Slice(svc.condition[1], 5) \in fsNow

\* svc.condition?.startsWith("file:") with !existsSync(svc.condition.slice(5))
ConditionUnmet(svc, fsNow) ==
    /\ svc.condition # None
    /\ StartsWith(svc.condition[1], LitFile)
    /\ Slice(svc.condition[1], 5) \notin fsNow

\* the preCommand block without its validation
PreCommandStepsUnchecked(svc) ==
    IF Truthy(svc.preCommand) THEN <<"preCommand">> ELSE <<>>

\* the preCommand block: what it does, in order
PreCommandSteps(svc) ==
    IF Truthy(svc.preCommand)
    THEN IF ~validatePreCommand(svc.preCommand[1])
         THEN <<"BLOCKED">>
         ELSE <<"preCommand">>
    ELSE <<>>

\* a failed check that logs every time
WaitingStepsEveryPoll(attempt) == <<"waiting">>

\* the waiting log line of one failed check
WaitingSteps(attempt) ==
    IF attempt = 0 \/ attempt % LogEvery = 0 THEN <<"waiting">> ELSE <<>>

\* the same with the spawn moved in front of the preCommand block
AttemptStepsSpawnFirst(svc) == <<"spawn">> \o PreCommandSteps(svc)

\* one attempt past the condition check: the preCommand block, then spawn
AttemptSteps(svc) == PreCommandSteps(svc) \o <<"spawn">>

Count(seq, x) == Cardinality({k \in 1..Len(seq) : seq[k] = x})

\* the attempt a poll timer carries: the code reads attempt === 0 and
\* attempt % 10 of it, so it is kept as it is up to 2 * LogEvery and from
\* there on by the number of 11..20 with the same remainder
Carried(attempt) == IF attempt > 2 * LogEvery THEN attempt - LogEvery ELSE attempt

\* startService with the preCommand block in front of the condition check
startServicePreFirst(svc, attempt, r, fsNow, preStatus) ==
    LET pre == PreCommandSteps(svc) IN
    IF ConditionUnmet(svc, fsNow)
    THEN [r EXCEPT !.timer = "poll", !.left = PollInterval, !.timers = @ + 1,
                   !.attempt = (attempt + 1) % LogEvery,
                   !.preRuns = @ + Count(pre, "preCommand"),
                   !.steps = pre \o WaitingSteps(attempt) \o <<"retry">>]
    ELSE [r EXCEPT !.attempt = 0, !.child = TRUE, !.children = @ + 1,
                   !.spawns = @ + 1,
                   !.preRuns = @ + Count(pre, "preCommand"),
                   !.childUid = Some(NODE_UID), !.childGid = Some(NODE_GID),
                   !.childHome = Some(NODE_HOME),
                   !.steps = pre \o <<"spawn">>]

\* startService(svc, attempt) on the instance r; preStatus is the exit status
\* spawnSync gets from the preCommand
startService(svc, attempt, r, fsNow, preStatus) ==
    IF ConditionUnmet(svc, fsNow)
    THEN [r EXCEPT !.timer = "poll", !.left = PollInterval, !.timers = @ + 1,
                   !.attempt = Carried(attempt + 1),
                   !.steps = WaitingSteps(attempt) \o <<"retry">>]
    ELSE LET did == AttemptSteps(svc) IN
         [r EXCEPT !.attempt = 0,
                   !.child = TRUE, !.children = @ + 1,
                   !.spawns = @ + Count(did, "spawn"),
                   !.preRuns = @ + Count(did, "preCommand"),
                   !.blocked = @ + Count(did, "BLOCKED"),
                   !.preExit = IF Count(did, "preCommand") > 0 THEN Some(preStatus) ELSE None,
                   !.preUid = IF Count(did, "preCommand") > 0 THEN Some(ROOT_UID) ELSE None,
                   !.childUid = Some(NODE_UID),
                   !.childGid = Some(NODE_GID),
                   !.childHome = Some(NODE_HOME),
                   !.steps = did]

\* a restart that spawns without evaluating the condition again
RestartCallbackUnchecked(svc, r, fsNow, preStatus) ==
    startService(svc, 0, r, FilePaths \cup {AbsentPath}, preStatus)

\* () => startService(svc), the callback of the restart timer
RestartCallback(svc, r, fsNow, preStatus) == startService(svc, 0, r, fsNow, preStatus)

\* code == null in place of code === 0
ExitedCleanlyNullCheck(e) == e.code = None

\* code === 0
ExitedCleanly(e) == e.code = Some(0)

\* svc.restartDelay || 5 in place of ??
RestartDelayFalsy(svc) ==
    IF svc.restartDelay = None \/ svc.restartDelay[1] = 0
    THEN DefaultRestartDelay ELSE svc.restartDelay[1]

\* svc.restartDelay ?? 5
RestartDelayOf(svc) == Nullish(svc.restartDelay, DefaultRestartDelay)

\* an exit listener whose delay grows with the number of crashes
OnExitBackoff(svc, r, e) ==
    IF ExitedCleanly(e)
    THEN [r EXCEPT !.child = FALSE, !.children = @ - 1, !.lastExit = Some(e)]
    ELSE [r EXCEPT !.child = FALSE, !.children = @ - 1, !.lastExit = Some(e), !.crashes = @ + 1,
                   !.timer = "restart", !.left = RestartDelayOf(svc) + r.crashes,
                   !.timers = @ + 1]

\* the 'exit' listener
OnExit(svc, r, e) ==
    IF ExitedCleanly(e)
    THEN [r EXCEPT !.child = FALSE, !.children = @ - 1, !.lastExit = Some(e)]
    ELSE [r EXCEPT !.child = FALSE, !.children = @ - 1, !.lastExit = Some(e), !.crashes = @ + 1,
                   !.timer = "restart", !.left = RestartDelayOf(svc), !.timers = @ + 1]

\* the body of the loop without its startDelay branch
RegisterNoDelay(svc, fsNow, preStatus) == startService(svc, 0, NewInstance, fsNow, preStatus)

\* the body of the loop with the condition looked at before the start delay
RegisterConditionFirst(svc, fsNow, preStatus) ==
    IF ConditionUnmet(svc, fsNow) \/ Nullish(svc.startDelay, 0) = 0
    THEN startService(svc, 0, NewInstance, fsNow, preStatus)
    ELSE [NewInstance EXCEPT !.timer = "start", !.left = Nullish(svc.startDelay, 0), !.timers = 1]

\* the body of the for loop of startAllServices
Register(svc, fsNow, preStatus) ==
    LET delay == Nullish(svc.startDelay, 0) IN
    IF delay > 0
    THEN [NewInstance EXCEPT !.timer = "start", !.left = delay, !.timers = 1]
    ELSE startService(svc, 0, NewInstance, fsNow, preStatus)

\* startAllServices with an existsSync that is always true: the missing file
\* is read, readFileSync throws, and the catch warns
ParseWarningUnguarded(file) == file = None \/ file[1].json # "array"

\* the entries the for loop of startAllServices gets through: the loop is
\* inside the try, and the first entry that throws ends it
RECURSIVE Loaded(_)
Loaded(items) ==
    IF items = <<>> \/ Head(items) = NullEntry THEN <<>>
    ELSE <<Head(items)>> \o Loaded(Tail(items))

\* the catch of startAllServices is entered: the file exists, and JSON.parse,
\* the for ... of over its value, or the loop body on an entry throws
ParseWarning(file) ==
    file # None /\ (file[1].json # "array" \/ \E k \in 1..Len(file[1].items) : file[1].items[k] = NullEntry)

\* registration in a start of startAllServices that reads the file first and
\* starts the gateway inside the same try
RegisteredServicesInsideTry(file) ==
    IF file # None /\ file[1].json # "array" THEN <<>>
    ELSE <<gateway>> \o (IF file = None THEN <<>> ELSE file[1].items)

\* a module whose top level installs no listener before main() is called
NoModuleSteps == << >>

\* the statements of the module that run before main() is called: the two
\* process.on of lines 252-253
ModuleSteps == << <<"process.on", "SIGTERM">>, <<"process.on", "SIGINT">> >>

\* a listener of the termination signals is in place
HandlerInstalled(log) ==
    {k \in 1..Len(log) : log[k] \in {<<"process.on", "SIGTERM">>, <<"process.on", "SIGINT">>}} # {}

\* main has run its maintenance calls
StepMaintenance == <<"main", "maintenance">>

\* main has called setupSkills
StepSkills == <<"main", "setupSkills">>

\* main awaits the startup-delay timer
StepAwait == <<"main", "await">>

\* the loop of startAllServices over the entries, step by step, up to the
\* entry that throws
RECURSIVE LoopSteps(_)
LoopSteps(items) ==
    IF items = <<>> THEN <<>>
    ELSE IF Head(items) = NullEntry THEN << <<"warn", "services.json">> >>
    ELSE << <<"registered", Head(items).name>>,
            IF Nullish(Head(items).startDelay, 0) > 0
            THEN <<"setTimeout", Head(items).name>>
            ELSE <<"startService", Head(items).name>> >>
         \o LoopSteps(Tail(items))

\* startAllServices with the file read before the gateway is started
RegistrationStepsFileFirst(file) ==
    (IF file = None THEN <<>>
     ELSE << <<"readFileSync", "services.json">> >>
          \o (IF file[1].json # "array" THEN << <<"warn", "services.json">> >>
              ELSE LoopSteps(file[1].items)))
    \o << <<"registered", gateway.name>>, <<"startService", gateway.name>> >>

\* the statements of startAllServices, in the order it makes them
RegistrationSteps(file) ==
    << <<"registered", gateway.name>>, <<"startService", gateway.name>> >>
    \o (IF file = None THEN <<>>
        ELSE << <<"readFileSync", "services.json">> >>
             \o (IF file[1].json # "array" THEN << <<"warn", "services.json">> >>
                 ELSE LoopSteps(file[1].items)))

\* startAllServices: the descriptors in registration order, and their instances
RegisteredServices(file) ==
    <<gateway>> \o (IF file = None \/ file[1].json # "array" THEN <<>> ELSE Loaded(file[1].items))

startAllServices(file, fsNow, preStatus) ==
    LET all == RegisteredServices(file) IN
    [i \in 1..Len(all) |->
        IF i = 1
        THEN startService(all[i], 0, NewInstance, fsNow, preStatus[i])
        ELSE Register(all[i], fsNow, preStatus[i])]

----------------------------------------------------------------------------
(* Maintenance: cleanStaleLocks and migrateDoctor, as main calls them.  Each *)
(* gives the disk it leaves, the calls it made in order, and whether it     *)
(* threw.                                                                   *)

\* cleanStaleLocks with the existsSync guard dropped (rmSync with force)
\* parseInt(process.env.STARTUP_DELAY || "0", 10); NaN, for which
\* startupDelay > 0 is false as it is for 0, is held as 0
startupDelayOf(e) ==
    LET n == parseInt(IF e = None \/ e[1] = <<>> THEN <<"0">> ELSE e[1]) IN
    IF n = <<>> THEN 0 ELSE n[1]

\* the names of the skills of the model
SkillNames == {"a", "b"}

\* existsSync(dest) in SKILLS_DIR, a set of <<name, where it links to>>
Has(dir, n) == {e \in dir : e[1] = n} # {}

\* the loop over the bundled skills: symlinkSync is not in a try
RECURSIVE linkBundled(_, _, _)
linkBundled(list, dir, refused) ==
    IF list = <<>> THEN [dir |-> dir, threw |-> FALSE]
    ELSE LET n == Head(list) IN
         IF Has(dir, n) THEN linkBundled(Tail(list), dir, refused)
         ELSE IF n \in refused THEN [dir |-> dir, threw |-> TRUE]
         ELSE linkBundled(Tail(list), dir \cup {<<n, "bundled">>}, refused)

\* the loop over the custom skills: what is there is removed, then
\* symlinkSync, not in a try either
RECURSIVE linkCustom(_, _, _)
linkCustom(list, dir, refused) ==
    IF list = <<>> THEN [dir |-> dir, threw |-> FALSE]
    ELSE LET n == Head(list)
             cleared == {e \in dir : e[1] # n}
         IN  IF n \in refused THEN [dir |-> cleared, threw |-> TRUE]
             ELSE linkCustom(Tail(list), cleared \cup {<<n, "custom">>}, refused)

\* linkSkillBinaries: every skill of SKILLS_DIR inside its own try; one
\* whose package.json does not parse is passed over, one whose bin cannot
\* be linked is warned about
linkSkillBinaries(dir, pkg) ==
    [bins |-> {e[1] : e \in {e \in dir : pkg[e[1]] = "bin"}},
     warns |-> {e[1] : e \in {e \in dir : pkg[e[1]] = "bin refused"}}]

\* a process that has not called setupSkills
NotRun == [dir |-> {}, bins |-> {}, warns |-> {}, threw |-> FALSE]

\* setupSkills: SKILLS_DIR is emptied, the bundled skills are linked, then
\* the custom ones over them, then linkSkillBinaries
setupSkills(sd) ==
    LET b == IF sd.bundled = None THEN [dir |-> {}, threw |-> FALSE]
             ELSE linkBundled(sd.bundled[1], {}, sd.refused)
        c == IF b.threw \/ sd.custom = None THEN b
             ELSE linkCustom(sd.custom[1], b.dir, sd.refused)
        l == linkSkillBinaries(c.dir, sd.pkg)
    IN  IF c.threw THEN [dir |-> c.dir, bins |-> {}, warns |-> {}, threw |-> TRUE]
        ELSE [dir |-> c.dir, bins |-> l.bins, warns |-> l.warns, threw |-> FALSE]

cleanStaleLocksUnguarded(d, no) ==
    IF "rm" \in no
    THEN [disk |-> d, ops |-> <<"rm failed">>, threw |-> TRUE]
    ELSE [disk |-> [d EXCEPT !.lock = FALSE], ops |-> <<"rm">>, threw |-> FALSE]

\* cleanStaleLocks: rmSync is not in a try
cleanStaleLocks(d, no) ==
    IF d.lock
    THEN IF "rm" \in no
         THEN [disk |-> d, ops |-> <<"rm failed">>, threw |-> TRUE]
         ELSE [disk |-> [d EXCEPT !.lock = FALSE], ops |-> <<"rm">>, threw |-> FALSE]
    ELSE [disk |-> d, ops |-> <<>>, threw |-> FALSE]

\* try { chmodSync(CONFIG_DIR, 0o700) } catch {}
tightenConfigDir(d, no) ==
    IF "chmod" \in no
    THEN [disk |-> d, ops |-> <<"chmod failed">>, threw |-> FALSE]
    ELSE [disk |-> [d EXCEPT !.mode = "0700"], ops |-> <<"chmod">>, threw |-> FALSE]

\* renameSync(old, new): the new name gets the content of the old one,
\* whatever it held
renameSync(d) == [d EXCEPT !.current = d.legacy, !.legacy = None]

\* migrateDoctor without the !existsSync(newAllowFrom) test
migrateDoctorOverwrites(d, no) ==
    IF d.legacy # None
    THEN IF "rename" \in no
         THEN [disk |-> d, ops |-> <<"rename failed">>, threw |-> TRUE]
         ELSE LET c == tightenConfigDir(renameSync(d), no) IN
              [c EXCEPT !.ops = <<"rename">> \o @]
    ELSE tightenConfigDir(d, no)

\* migrateDoctor: renameSync is not in a try, chmodSync is
migrateDoctor(d, no) ==
    IF d.legacy # None /\ d.current = None
    THEN IF "rename" \in no
         THEN [disk |-> d, ops |-> <<"rename failed">>, threw |-> TRUE]
         ELSE LET c == tightenConfigDir(renameSync(d), no) IN
              [c EXCEPT !.ops = <<"rename">> \o @]
    ELSE tightenConfigDir(d, no)

\* migrateDoctor(); cleanStaleLocks(); the two calls of main exchanged
FixupsMigrateFirst(d, no) ==
    LET a == migrateDoctor(d, no) IN
    IF a.threw THEN a
    ELSE LET b == cleanStaleLocks(a.disk, no) IN
         [disk |-> b.disk, ops |-> a.ops \o b.ops, threw |-> b.threw]

\* cleanStaleLocks(); migrateDoctor(); of main: a throw ends main there
Fixups(d, no) ==
    LET a == cleanStaleLocks(d, no) IN
    IF a.threw THEN a
    ELSE LET b == migrateDoctor(a.disk, no) IN
         [disk |-> b.disk, ops |-> a.ops \o b.ops, threw |-> b.threw]

----------------------------------------------------------------------------
(* Actions.                                                                *)

Ids == 1..Len(services)

TotalCrashes == LET RECURSIVE Sum(_)
                    Sum(n) == IF n = 0 THEN 0 ELSE rt[n].crashes + Sum(n - 1)
                IN  Sum(Len(rt))

launcherVars == <<services, rt>>

maintVars == <<disk, maint, denied, boots, env, skillDirs, skillRun>>

bootVars == <<proc, status, startupDelay, bootLeft, servicesFile, warned, bootLog, maintVars>>

validatorVars == <<cmd, verdict>>

\* the process is there
Alive == proc \in {"boot", "startupDelay", "up"}

\* the event loop turns: main's synchronous part is over, so a listener of a
\* signal can be called
Looping == proc \in {"startupDelay", "up"}

\* some instance waits on a poll timer
Polling == \E i \in DOMAIN rt : rt[i].timer = "poll"

\* the stopwatch runs only while an instance of the table t is polling
StopWatch(t) == IF \E i \in DOMAIN t : t[i].timer = "poll" THEN watch ELSE -1

\* the table of a process that is gone: its timers are gone with it, its
\* children are what they were
Halted(t) ==
    [i \in DOMAIN t |-> [t[i] EXCEPT !.timer = "none", !.left = 0, !.timers = 0, !.attempt = 0]]

\* the instance whose spawn call gave no process
SpawnFailed(r) == [r EXCEPT !.child = FALSE, !.children = @ - 1, !.spawnError = TRUE]

\* the instance as the callback of its due timer finds it: a timer that has
\* fired is pending no more
Fired(r) == [r EXCEPT !.timer = "none", !.left = 0, !.timers = @ - 1]

\* nothing keeps the event loop going: no child handle, no timer (the signal
\* listeners do not count)
Idle(t) == \A i \in DOMAIN t : t[i].children = 0 /\ t[i].timers = 0

\* the same with one timer handle shared by all services: a handler that
\* runs startService for one instance drops the timer pending for the others
StartedSharedTimer(i, r2, so) ==
    /\ UNCHANGED <<proc, status>>
    /\ rt' = [j \in DOMAIN rt |->
                IF j = i THEN r2 ELSE [rt[j] EXCEPT !.timer = "none", !.left = 0, !.timers = 0]]

\* the process once the handler that called startService on instance i, with
\* the result r2, has returned: a failed spawn is emitted as 'error' on the
\* child object, nothing listens for it, and the process dies of it
Started(i, r2, so) ==
    IF so = "error" /\ r2.spawns > rt[i].spawns
    THEN /\ proc' = "crashed"
         /\ status' = Some(1)
         /\ rt' = Halted([rt EXCEPT ![i] = SpawnFailed(r2)])
    ELSE /\ UNCHANGED <<proc, status>>
         /\ rt' = [rt EXCEPT ![i] = r2]

\* startAllServices as main calls it, and the process once main has returned
RegisterAll(done) ==
    /\ services' = RegisteredServices(servicesFile)
    /\ warned' = ParseWarning(servicesFile)
    /\ bootLog' = done \o RegistrationSteps(servicesFile)
    /\ \E ps \in [1..Len(RegisteredServices(servicesFile)) -> {0, 1}],
          so \in [1..Len(RegisteredServices(servicesFile)) -> SpawnOutcomes] :
          LET t == startAllServices(servicesFile, files, ps)
              failed == {i \in DOMAIN t : t[i].spawns > 0 /\ so[i] = "error"}
              first == CHOOSE i \in failed : \A j \in failed : i <= j
          IN  IF failed # {}
              THEN /\ proc' = "crashed"
                   /\ status' = Some(1)
                   /\ rt' = Halted([t EXCEPT ![first] = SpawnFailed(t[first])])
              ELSE /\ proc' = "up"
                   /\ status' = None
                   /\ rt' = t

\* main up to its await, or to its end when there is no startup delay
Main ==
    /\ proc = "boot"
    /\ skillRun' = setupSkills(skillDirs)
    /\ IF skillRun'.threw
       THEN /\ proc' = "crashed"
            /\ status' = Some(1)
            /\ bootLeft' = 0
            /\ maint' = <<>>
            /\ bootLog' = bootLog \o <<StepSkills>>
            /\ UNCHANGED <<disk, launcherVars, warned>>
       ELSE LET m == Fixups(disk, denied) IN
            /\ disk' = m.disk
            /\ maint' = m.ops
            /\ IF m.threw
               THEN /\ proc' = "crashed"
                    /\ status' = Some(1)
                    /\ bootLeft' = 0
                    /\ bootLog' = bootLog \o <<StepSkills, StepMaintenance>>
                    /\ UNCHANGED <<launcherVars, warned>>
               ELSE IF startupDelay > 0
                    THEN /\ proc' = "startupDelay"
                         /\ bootLeft' = startupDelay
                         /\ bootLog' = bootLog \o <<StepSkills, StepMaintenance, StepAwait>>
                         /\ UNCHANGED <<status, launcherVars, warned>>
                    ELSE /\ bootLeft' = 0
                         /\ RegisterAll(bootLog \o <<StepSkills, StepMaintenance>>)
    /\ UNCHANGED <<env, skillDirs, startupDelay, servicesFile, denied, boots, files, watch,
                   validatorVars, running>>

\* main going on to startAllServices without awaiting the timer
StartupDelayNotAwaited ==
    /\ proc = "startupDelay"
    /\ RegisterAll(bootLog)
    /\ UNCHANGED <<startupDelay, bootLeft, servicesFile, maintVars, files, watch, validatorVars, running>>

\* the startup-delay timer resolves the promise and main goes on
StartupDelayElapsed ==
    /\ proc = "startupDelay"
    /\ bootLeft = 0
    /\ RegisterAll(bootLog)
    /\ UNCHANGED <<startupDelay, bootLeft, servicesFile, maintVars, files, watch, validatorVars, running>>

\* setTimeout(() => startService(svc), delay * 1000) of startAllServices fires
StartTimerFires(i) ==
    /\ proc = "up"
    /\ rt[i].timer = "start" /\ rt[i].left = 0
    /\ \E ps \in {0, 1}, so \in SpawnOutcomes :
          Started(i, startService(services[i], 0, Fired(rt[i]), files, ps), so)
    /\ watch' = StopWatch(rt')
    /\ UNCHANGED <<startupDelay, bootLeft, servicesFile, warned, bootLog, maintVars, files, services,
                   validatorVars, running>>

\* setInterval in place of setTimeout: the poll timer stays armed when its
\* callback runs
PollTimerRepeats(i) ==
    /\ proc = "up"
    /\ rt[i].timer = "poll" /\ rt[i].left = 0
    /\ \E ps \in {0, 1}, so \in SpawnOutcomes :
          Started(i, startService(services[i], rt[i].attempt,
                                  [rt[i] EXCEPT !.left = PollInterval], files, ps), so)
    /\ watch' = StopWatch(rt')
    /\ UNCHANGED <<startupDelay, bootLeft, servicesFile, warned, bootLog, maintVars, files, services,
                   validatorVars, running>>

\* setTimeout(() => startService(svc, attempt + 1), 30_000) fires
PollTimerFires(i) ==
    /\ proc = "up"
    /\ rt[i].timer = "poll" /\ rt[i].left = 0
    /\ \E ps \in {0, 1}, so \in SpawnOutcomes :
          Started(i, startService(services[i], rt[i].attempt, Fired(rt[i]), files, ps), so)
    /\ watch' = StopWatch(rt')
    /\ UNCHANGED <<startupDelay, bootLeft, servicesFile, warned, bootLog, maintVars, files, services,
                   validatorVars, running>>

\* an exit listener whose callback reads services.json again and starts what
\* the file now declares in place i
RestartTimerRereads(i) ==
    /\ proc = "up"
    /\ rt[i].timer = "restart" /\ rt[i].left = 0
    /\ services' = IF i <= Len(RegisteredServices(servicesFile))
                   THEN [services EXCEPT ![i] = RegisteredServices(servicesFile)[i]]
                   ELSE services
    /\ \E ps \in {0, 1}, so \in SpawnOutcomes :
          Started(i, RestartCallback(services'[i], Fired(rt[i]), files, ps), so)
    /\ watch' = StopWatch(rt')
    /\ UNCHANGED <<startupDelay, bootLeft, servicesFile, warned, bootLog, maintVars, files,
                   validatorVars, running>>

\* setTimeout(() => startService(svc), delay * 1000) of the exit listener fires
RestartTimerFires(i) ==
    /\ proc = "up"
    /\ rt[i].timer = "restart" /\ rt[i].left = 0
    /\ \E ps \in {0, 1}, so \in SpawnOutcomes :
          Started(i, RestartCallback(services[i], Fired(rt[i]), files, ps), so)
    /\ watch' = StopWatch(rt')
    /\ UNCHANGED <<startupDelay, bootLeft, servicesFile, warned, bootLog, maintVars, files, services,
                   validatorVars, running>>

\* the child of service i exits; with no child and no timer left the event
\* loop is empty and the process ends by itself, with status 0
ChildExit(i, e) ==
    /\ proc = "up"
    /\ rt[i].child
    /\ ~ExitedCleanly(e) => TotalCrashes < MaxCrashes
    /\ rt' = [rt EXCEPT ![i] = OnExit(services[i], rt[i], e)]
    /\ IF Idle(rt')
       THEN proc' = "drained" /\ status' = Some(0)
       ELSE UNCHANGED <<proc, status>>
    /\ UNCHANGED <<startupDelay, bootLeft, servicesFile, warned, bootLog, maintVars, files, services,
                   watch, validatorVars, running>>

\* a handler that signals the children before it exits
SignalStopsChildren ==
    /\ Looping
    /\ HandlerInstalled(bootLog)
    /\ proc' = "exited"
    /\ status' = Some(0)
    /\ bootLeft' = 0
    /\ rt' = [i \in DOMAIN rt |-> [Halted(rt)[i] EXCEPT !.child = FALSE]]
    /\ watch' = -1
    /\ UNCHANGED <<startupDelay, servicesFile, warned, bootLog, maintVars, files, services, validatorVars, running>>

\* process.on("SIGTERM" / "SIGINT", () => process.exit(0)): the process and
\* its timers are gone, the children are left as they are
Signal ==
    /\ Looping
    /\ HandlerInstalled(bootLog)
    /\ proc' = "exited"
    /\ status' = Some(0)
    /\ bootLeft' = 0
    /\ rt' = Halted(rt)
    /\ watch' = -1
    /\ UNCHANGED <<startupDelay, servicesFile, warned, bootLog, maintVars, files, services, validatorVars, running>>

\* one second passes; no callback is due
Tick ==
    /\ proc \in {"startupDelay", "up"}
    /\ proc = "startupDelay" => bootLeft > 0
    /\ \A i \in DOMAIN rt : rt[i].timer # "none" => rt[i].left > 0
    /\ bootLeft' = IF bootLeft > 0 THEN bootLeft - 1 ELSE 0
    /\ rt' = [i \in DOMAIN rt |->
                IF rt[i].timer = "none" THEN rt[i] ELSE [rt[i] EXCEPT !.left = @ - 1]]
    /\ watch' = IF watch >= 0 /\ Polling THEN watch + 1 ELSE -1
    /\ UNCHANGED <<proc, status, startupDelay, servicesFile, warned, bootLog, maintVars, files, services,
                   validatorVars, running>>

\* something outside the supervisor creates a path
FileAppears(p) ==
    /\ Alive
    /\ p \notin files
    /\ files' = files \cup {p}
    /\ UNCHANGED <<bootVars, launcherVars, watch, validatorVars, running>>

\* the same, watched: a stopwatch starts that runs while the path stays and
\* an instance is still polling
FileAppearsWatched(p) ==
    /\ proc = "up"
    /\ p \notin files
    /\ Polling
    /\ files' = files \cup {p}
    /\ watch' = 0
    /\ UNCHANGED <<bootVars, launcherVars, validatorVars, running>>

\* something outside the supervisor removes a path
FileVanishes(p) ==
    /\ Alive
    /\ p \in files
    /\ files' = files \ {p}
    /\ watch' = -1
    /\ UNCHANGED <<bootVars, launcherVars, validatorVars, running>>

\* the container is started again on the same volume: a new process, the
\* disk as the last one left it
Reboot ==
    /\ ~Alive
    /\ boots < MaxBoots
    /\ proc' = "boot"
    /\ status' = None
    /\ boots' = boots + 1
    /\ denied' \in SUBSET FileOps
    /\ services' = <<>>
    /\ rt' = <<>>
    /\ warned' = FALSE
    /\ bootLog' = ModuleSteps
    /\ skillRun' = NotRun
    /\ bootLeft' = 0
    /\ watch' = -1
    /\ UNCHANGED <<disk, maint, env, skillDirs, startupDelay, servicesFile, files, validatorVars, running>>

\* the process starts: STARTUP_DELAY, services.json and the state directory
\* are what boot finds
BootWith(envs, skills, sfiles, disks, refusals) ==
    /\ proc = "boot"
    /\ status = None
    /\ disk \in disks
    /\ denied \in refusals
    /\ maint = <<>>
    /\ boots = 1
    /\ warned = FALSE
    /\ bootLog = ModuleSteps
    /\ env \in envs                           \* fixed when the process starts:
    /\ startupDelay = startupDelayOf(env)     \* main will parse this out of it
    /\ skillDirs \in skills
    /\ skillRun = NotRun
    /\ servicesFile \in sfiles
    /\ bootLeft = 0
    /\ files \in SUBSET FilePaths
    /\ services = <<>>
    /\ rt = <<>>
    /\ running = None
    /\ watch = -1
    /\ cmd = <<>>
    /\ verdict = "none"

\* STARTUP_DELAY as a deployment sets it: unset, or the number of seconds
PlainEnvs == {None, Some(<<"2">>)}

\* an image with one bundled skill, which has no package.json
PlainSkills ==
    [bundled |-> Some(<<"a">>), custom |-> None, refused |-> {},
     pkg |-> [n \in SkillNames |-> "none"]]

\* the same with the startup delays of delays and nothing unusual among the
\* skills
BootOn(delays, sfiles, disks, refusals) ==
    BootWith({e \in PlainEnvs : startupDelayOf(e) \in delays}, {PlainSkills}, sfiles, disks,
             refusals)

\* the same on a state directory maintenance finds nothing to do in
Boot(delays, sfiles) == BootOn(delays, sfiles, {CleanDisk}, {{}})

Init ==
    \/ Boot({0}, ServiceFiles)
    \/ Boot({2}, {None, Some(ArrayOf(<<Declared(None, None, None, Some(2))>>))})

Next ==
    \/ Main
    \/ StartupDelayElapsed
    \/ \E i \in Ids : StartTimerFires(i)
    \/ \E i \in Ids : PollTimerFires(i)
    \/ \E i \in Ids : RestartTimerFires(i)
    \/ \E i \in Ids, e \in ExitEvents : ChildExit(i, e)
    \/ Signal
    \/ Tick
    \/ \E p \in FilePaths : FileAppears(p)
    \/ \E p \in FilePaths : FileVanishes(p)

Spec == Init /\ [][Next]_vars

----------------------------------------------------------------------------
(* The watched run: one declared service with a file condition, and the    *)
(* stopwatch on the appearance of its path.                                *)

WatchedService == Declared(Some(CondFile), Some(PreSafe), Some(0), Some(2))

InitWatch == Boot({0, 2}, {Some(ArrayOf(<<WatchedService>>))})

\* the steps of Next, with the gateway's child left running, and the watched
\* appearance of the path
NextWatch ==
    \/ Main
    \/ StartupDelayElapsed
    \/ \E i \in Ids : StartTimerFires(i)
    \/ \E i \in Ids : PollTimerFires(i)
    \/ \E i \in Ids : RestartTimerFires(i)
    \/ \E i \in Ids \ {1}, e \in ExitEvents : ChildExit(i, e)
    \/ Signal
    \/ Tick
    \/ \E p \in FilePaths : FileAppears(p)
    \/ \E p \in FilePaths : FileAppearsWatched(p)
    \/ \E p \in FilePaths : FileVanishes(p)

WatchSpec == InitWatch /\ [][NextWatch]_vars

----------------------------------------------------------------------------
(* Boots of the gateway alone on every state directory, with the           *)
(* filesystem refusing any of the calls of maintenance, and the container  *)
(* started again when the process is gone.                                 *)

InitBoot == BootOn({0, 2}, {None}, Disks, SUBSET FileOps)

NextBoot ==
    \/ Main
    \/ StartupDelayElapsed
    \/ \E i \in Ids : RestartTimerFires(i)
    \/ \E i \in Ids, e \in ExitEvents : ChildExit(i, e)
    \/ Signal
    \/ Tick
    \/ Reboot

BootSpec == InitBoot /\ [][NextBoot]_vars

----------------------------------------------------------------------------
(* Boots while services.json is rewritten under the running supervisor.    *)

\* what services.json holds at one time or another
RewrittenFiles ==
    {None, Some(ArrayOf(<<Declared(None, None, Some(0), None)>>)),
     Some(ArrayOf(<<Declared(None, None, None, None)>>))}

\* somebody replaces, creates or removes services.json
FileRewritten ==
    /\ servicesFile' \in RewrittenFiles \ {servicesFile}
    /\ UNCHANGED <<proc, status, startupDelay, bootLeft, warned, bootLog, maintVars, files,
                   launcherVars, watch, validatorVars, running>>

InitReload == Boot({0}, RewrittenFiles)

NextReload ==
    \/ Main
    \/ \E i \in Ids : RestartTimerFires(i)
    \/ \E i \in Ids, e \in ExitEvents : ChildExit(i, e)
    \/ Signal
    \/ Tick
    \/ FileRewritten
    \/ Reboot

ReloadSpec == InitReload /\ [][NextReload]_vars

----------------------------------------------------------------------------
(* Boots on skill directories in which single items fail.                  *)

\* package.json of a skill: missing, not parsable, with one bin entry that
\* can be linked, with one that cannot
PkgKinds == {"none", "invalid", "bin", "bin refused"}

\* /app/skills and /skills-custom (<<>>: no such directory), the names
\* symlinkSync refuses in SKILLS_DIR, and the package.json of every skill
SkillDirs ==
    [bundled : {None, Some(<<"a">>), Some(<<"a", "b">>)},
     custom : {None, Some(<<"b">>), Some(<<"b", "a">>)},
     refused : SUBSET SkillNames,
     pkg : [SkillNames -> PkgKinds]]

InitSkills == BootWith({None}, SkillDirs, {None}, {CleanDisk}, {{}})

NextSkills ==
    \/ Main
    \/ \E i \in Ids : RestartTimerFires(i)
    \/ \E i \in Ids, e \in ExitEvents : ChildExit(i, e)
    \/ Signal
    \/ Tick
    \/ Reboot

SkillSpec == InitSkills /\ [][NextSkills]_vars

----------------------------------------------------------------------------
(* Boots on generated values of STARTUP_DELAY.                             *)

\* a blank, a sign, two digits and a letter
EnvChars == {" ", "-", "0", "2", "s"}

\* the strings of up to n of these characters
RECURSIVE EnvStrings(_)
EnvStrings(n) ==
    IF n = 0 THEN {<<>>}
    ELSE LET shorter == EnvStrings(n - 1) IN
         shorter \cup {Append(t, c) : t \in shorter, c \in EnvChars}

\* STARTUP_DELAY unset, or set to one of the strings
Envs(n) == {None} \cup {Some(t) : t \in EnvStrings(n)}

InitEnv == BootWith(Envs(MaxEnvLen), {PlainSkills}, {None}, {CleanDisk}, {{}})

NextEnv ==
    \/ Main
    \/ StartupDelayElapsed
    \/ \E i \in Ids : RestartTimerFires(i)
    \/ \E i \in Ids, e \in ExitEvents : ChildExit(i, e)
    \/ Signal
    \/ Tick

EnvSpec == InitEnv /\ [][NextEnv]_vars

----------------------------------------------------------------------------
(* Boots on a services.json of several entries, a null among them.         *)

\* a service started at once, restarted at once
Quick == [Declared(None, None, Some(0), None) EXCEPT !.name = "quick"]

\* a service started after 2 s
Late == [Declared(None, None, None, Some(2)) EXCEPT !.name = "late"]

\* a service that polls a path nothing creates
Stuck == [Declared(Some(CondNever), None, None, None) EXCEPT !.name = "stuck"]

ListFiles ==
    {Some(ArrayOf(<<Quick, Late>>)),
     Some(ArrayOf(<<Quick, NullEntry, Late>>)),
     Some(ArrayOf(<<NullEntry, Quick>>)),
     Some(ArrayOf(<<Stuck, Quick>>))}

InitList == Boot({0}, ListFiles)

NextList ==
    \/ Main
    \/ \E i \in Ids : StartTimerFires(i)
    \/ \E i \in Ids : PollTimerFires(i)
    \/ \E i \in Ids : RestartTimerFires(i)
    \/ \E i \in Ids, e \in ExitEvents : ChildExit(i, e)
    \/ Signal
    \/ Tick

ListSpec == InitList /\ [][NextList]_vars

----------------------------------------------------------------------------
(* The callback of a timer statement by statement: the condition check,    *)
(* the preCommand block, which takes time, and the spawn.                  *)

\* an event loop that calls the next callback while one is still at work,
\* as it would between the parts of a callback that awaits
LoopNeverBusy == TRUE

\* the event loop calls a callback only when the one before has returned;
\* existsSync, spawnSync and spawn all return to startService, none yields
LoopIdle == running = None

\* the callback of the due timer of instance i is called: startService up
\* to the end of its condition check; an unmet condition ends the call
BeginAttempt(i) ==
    /\ LoopIdle
    /\ proc = "up"
    /\ rt[i].timer # "none" /\ rt[i].left = 0
    /\ LET attempt == IF rt[i].timer = "poll" THEN rt[i].attempt ELSE 0 IN
       IF ConditionUnmet(services[i], files)
       THEN /\ rt' = [rt EXCEPT ![i] =
                          startService(services[i], attempt, Fired(rt[i]), files, 0)]
            /\ running' = None
       ELSE /\ rt' = [rt EXCEPT ![i] = Fired(rt[i])]
            /\ running' = Some([svc |-> i, at |-> "preCommand", attempt |-> attempt,
                                fs |-> files, took |-> 0, preStatus |-> 0])
    /\ watch' = StopWatch(rt')
    /\ UNCHANGED <<bootVars, files, services, validatorVars>>

\* spawnSync has not returned yet: a second passes, the timers of the other
\* services run down, and nothing is called
PreCommandTakesTime ==
    /\ running # None
    /\ running[1].at = "preCommand"
    /\ PreCommandSteps(services[running[1].svc]) = <<"preCommand">>
    /\ running[1].took < MaxPreSeconds
    /\ running' = Some([running[1] EXCEPT !.took = @ + 1])
    /\ rt' = [j \in DOMAIN rt |->
                IF rt[j].timer = "none" \/ rt[j].left = 0 THEN rt[j]
                ELSE [rt[j] EXCEPT !.left = @ - 1]]
    /\ UNCHANGED <<bootVars, files, services, watch, validatorVars>>

\* the preCommand block is over, with the exit status spawnSync got when it
\* ran the command
PreCommandDone ==
    /\ running # None
    /\ running[1].at = "preCommand"
    /\ \E ps \in {0, 1} :
          running' = Some([running[1] EXCEPT !.at = "spawn", !.preStatus = ps])
    /\ UNCHANGED <<bootVars, files, launcherVars, watch, validatorVars>>

\* spawn, the registration of the exit listener, and the return of the
\* callback
SpawnChild ==
    /\ running # None
    /\ running[1].at = "spawn"
    /\ LET i == running[1].svc IN
       \E so \in SpawnOutcomes :
          Started(i, startService(services[i], running[1].attempt, rt[i], running[1].fs,
                                  running[1].preStatus), so)
    /\ running' = None
    /\ watch' = StopWatch(rt')
    /\ UNCHANGED <<startupDelay, bootLeft, servicesFile, warned, bootLog, maintVars, files, services,
                   validatorVars>>

\* a service that waits for a path and has a preCommand, restarted at once
Guarded ==
    [Declared(Some(CondFile), Some(PreSafe), Some(0), None) EXCEPT !.name = "guarded"]

InitStep == Boot({0}, {Some(ArrayOf(<<Guarded>>))})

NextStep ==
    \/ Main
    \/ \E i \in Ids : BeginAttempt(i)
    \/ PreCommandTakesTime
    \/ PreCommandDone
    \/ SpawnChild
    \/ \E i \in Ids, e \in ExitEvents : LoopIdle /\ ChildExit(i, e)
    \/ LoopIdle /\ Signal
    \/ LoopIdle /\ Tick
    \/ \E p \in FilePaths : FileVanishes(p)

StepSpec == InitStep /\ [][NextStep]_vars

----------------------------------------------------------------------------
(* validatePreCommand on generated strings.  A string is                   *)
(*   lead front sep /prefix/ pieces suffix tail                            *)
(* where front is chmod -R a+rw or one deviation from it.                  *)

Front(verb, s1, flag, s2, mode) == verb \o s1 \o flag \o s2 \o mode

Fronts ==
    {Front(LitChmod, <<" ">>, LitDashR, <<" ">>, LitMode),
     Front(<<"c", "h", "o", "w", "n">>, <<" ">>, LitDashR, <<" ">>, LitMode),
     Front(LitChmod, <<" ">>, <<"-", "r">>, <<" ">>, LitMode),
     Front(LitChmod, <<" ">>, LitDashR, <<" ">>, <<"7", "7", "7">>),
     Front(LitChmod, <<>>, LitDashR, <<" ">>, LitMode),
     Front(LitChmod, <<"\n">>, LitDashR, <<" ">>, LitMode),
     Front(LitChmod, <<" ">>, LitDashR, <<" ", "\t">>, LitMode)}

Seps == {<<" ">>, <<"\n">>, <<>>}

Prefixes ==
    {LitHome,
     <<"/", "h", "o", "m", "e", "/", "n", "o", "d", "e">>,
     <<"/", "e", "t", "c", "/">>}

PathPieces ==
    {<<"d">>, <<".", ".">>, <<"/">>, <<">">>, <<";">>, <<" ">>, <<"$">>, <<"(">>,
     <<"|">>, <<"&">>, <<Backquote>>}

RECURSIVE PiecesUpTo(_)
PiecesUpTo(n) ==
    IF n = 0 THEN {<<>>}
    ELSE PiecesUpTo(n - 1) \cup {q \o piece : q \in PiecesUpTo(n - 1), piece \in PathPieces}

LitSuffix == <<" ">> \o LitDevNull \o <<" ">> \o LitOrOr \o <<" ">> \o LitTrue

Suffixes ==
    {<<>>,
     LitSuffix,
     <<" ">> \o LitOrOr \o <<" ">> \o LitTrue,
     <<";", " ", "i", "d">>,
     <<" ", "|", " ", "s", "h">>}

Wraps == {<< <<>>, <<>> >>, << <<" ">>, <<"\n">> >>}

\* the generated strings with at most n path pieces
Commands(n) ==
    {w[1] \o f \o sep \o pre \o path \o suf \o w[2] :
        w \in Wraps, f \in Fronts, sep \in Seps, pre \in Prefixes,
        path \in PiecesUpTo(n), suf \in Suffixes}

InitValidate ==
    /\ proc = "boot"
    /\ status = None
    /\ disk = CleanDisk
    /\ denied = {}
    /\ maint = <<>>
    /\ boots = 1
    /\ warned = FALSE
    /\ bootLog = ModuleSteps
    /\ env = None
    /\ skillDirs = PlainSkills
    /\ skillRun = NotRun
    /\ startupDelay = 0
    /\ servicesFile = None
    /\ bootLeft = 0
    /\ files = {}
    /\ services = <<>>
    /\ rt = <<>>
    /\ running = None
    /\ watch = -1
    /\ cmd \in Commands(MaxPathPieces)
    /\ verdict = "none"

\* a call validatePreCommand(cmd)
Validate ==
    /\ verdict = "none"
    /\ verdict' = IF validatePreCommand(cmd) THEN "accepted" ELSE "rejected"
    /\ UNCHANGED <<bootVars, files, launcherVars, watch, cmd, running>>

ValidateSpec == InitValidate /\ [][Validate]_vars

----------------------------------------------------------------------------
(* Properties.                                                             *)

\* the instance's child last exited with code 0
CleanExit(r) == r.lastExit # None /\ r.lastExit[1].code = Some(0)

\* the instance's child last exited with a non-zero code or by a signal
Crashed(r) == r.lastExit # None /\ r.lastExit[1].code # Some(0)

\* the table t has made more spawns for service i than the table u
SpawnedBetween(u, t, i) ==
    i \in DOMAIN t /\ t[i].spawns > (IF i \in DOMAIN u THEN u[i].spawns ELSE 0)

\* the service waits on a file: condition whose path does not exist
PathAbsent(svc) ==
    \/ svc.condition = Some(CondFile) /\ ReadyPath \notin files
    \/ svc.condition = Some(CondNever)

\* C1: once the child of an instance (the gateway or a declared service) has
\* exited with code 0, the instance has no child and no timer in any later
\* state: it is never spawned again, and nothing is scheduled for it.
C1_CleanExitIsFinal ==
    \A i \in DOMAIN rt : CleanExit(rt[i]) => ~rt[i].child /\ rt[i].timer = "none"

\* a declared service has exited with code 0 after a restart, and the
\* supervisor goes on with the gateway
C1_Witness ==
    /\ proc = "up" /\ Len(rt) = 2
    /\ rt[1].child /\ CleanExit(rt[2]) /\ rt[2].spawns = 2

\* the delay the claim gives: the configured value, 5 when absent, 1 for the gateway
ClaimedRestartDelay(svc) ==
    IF svc.name = "gateway" THEN 1
    ELSE IF svc.restartDelay = None THEN 5 ELSE svc.restartDelay[1]

\* the claimed poll interval, in seconds
ClaimedPollSeconds == 30

\* the restart timer of instance i fires in this step
RestartFired(i) ==
    /\ proc = "up" /\ proc' = "up"
    /\ rt[i].timer = "restart" /\ rt'[i].timer # "restart"

\* a timer of instance i fires in this step: a start attempt is made
AttemptStep(i) ==
    /\ proc = "up" /\ proc' = "up"
    /\ rt[i].timer # "none" /\ rt[i].left = 0 /\ rt'[i] # rt[i]

\* the child of instance i exits in this step, not with code 0
CrashStep(i) == rt[i].child /\ ~rt'[i].child /\ Crashed(rt'[i])

\* C2 as stated: every exit with a non-zero code or by a signal arms a timer
\* of restartDelay seconds, and when it fires the service is spawned.
C2_AlwaysRestarted ==
    [][\A i \in DOMAIN rt :
          /\ CrashStep(i) =>
                rt'[i].timer = "restart" /\ rt'[i].left = ClaimedRestartDelay(services[i])
          /\ RestartFired(i) => rt[i].left = 0 /\ rt'[i].child]_vars

\* C2, amended: every exit with a non-zero code or by a signal arms a timer of
\* exactly restartDelay seconds (the configured value, 5 when absent, 1 for
\* the gateway); when it fires a start attempt is made, which spawns the
\* service unless it has a file: condition whose path does not exist then, and
\* in that case schedules a condition check one poll interval later.
C2_RestartAttemptAfterDelay ==
    [][\A i \in DOMAIN rt :
          /\ CrashStep(i) =>
                rt'[i].timer = "restart" /\ rt'[i].left = ClaimedRestartDelay(services[i])
          /\ RestartFired(i) =>
                /\ rt[i].left = 0
                /\ IF PathAbsent(services[i])
                   THEN /\ ~rt'[i].child /\ rt'[i].spawns = rt[i].spawns
                        /\ rt'[i].timer = "poll" /\ rt'[i].left = ClaimedPollSeconds
                   ELSE rt'[i].child /\ rt'[i].spawns = rt[i].spawns + 1]_vars

\* a service with restartDelay 0 was killed by a signal and is running again
C2_Witness ==
    \E i \in DOMAIN rt :
        /\ services[i].restartDelay = Some(0)
        /\ rt[i].lastExit # None /\ rt[i].lastExit[1].code = None
        /\ rt[i].spawns = 2 /\ rt[i].child

\* the service has a preCommand (a non-empty string) the allow-list rejects
HasUnsafePreCommand(svc) ==
    svc.preCommand # None /\ svc.preCommand[1] # <<>>
    /\ ~validatePreCommand(svc.preCommand[1])

\* C3: for a service whose preCommand (a non-empty string) does not match the
\* allow-list, on every start attempt, the first and every restart: the
\* preCommand is not executed, BLOCKED is logged, and the command is spawned in
\* that attempt.
C3_UnsafePreCommandBlocked ==
    \A i \in DOMAIN rt :
        HasUnsafePreCommand(services[i]) =>
            /\ rt[i].preRuns = 0 /\ rt[i].preUid = None
            /\ rt[i].blocked = rt[i].spawns
            /\ Count(rt[i].steps, "spawn") > 0 => rt[i].steps = <<"BLOCKED", "spawn">>

\* a service with an unsafe preCommand is running after a restart
C3_Witness ==
    \E i \in DOMAIN rt :
        /\ HasUnsafePreCommand(services[i])
        /\ rt[i].spawns = 2 /\ rt[i].blocked = 2 /\ rt[i].child

----------------------------------------------------------------------------
(* Paths and shell words, for the properties of validatePreCommand.        *)

RECURSIVE RunLen(_, _)
RunLen(s, seps) == IF s = <<>> \/ Head(s) \in seps THEN 0 ELSE 1 + RunLen(Tail(s), seps)

\* the non-empty runs of s between characters of seps
RECURSIVE Split(_, _)
Split(s, seps) ==
    IF s = <<>> THEN <<>>
    ELSE IF Head(s) \in seps THEN Split(Tail(s), seps)
    ELSE LET n == RunLen(s, seps) IN
         <<SubSeq(s, 1, n)>> \o Split(SubSeq(s, n + 1, Len(s)), seps)

\* the directory a list of path segments denotes from /, . and .. resolved
RECURSIVE Resolve(_, _)
Resolve(segs, stack) ==
    IF segs = <<>> THEN stack
    ELSE LET h == Head(segs) IN
         Resolve(Tail(segs),
                 IF h = <<".">> THEN stack
                 ELSE IF h = <<".", ".">>
                      THEN (IF stack = <<>> THEN stack ELSE SubSeq(stack, 1, Len(stack) - 1))
                      ELSE Append(stack, h))

\* the path argument of a chmod command line: its fourth word
ChmodTarget(c) == Split(Trim(c), {" ", "\t", "\n"})[4]

\* the path denotes /home/node or something below it
UnderHome(path) ==
    LET at == Resolve(Split(path, {"/"}), <<>>) IN
    Len(at) >= 2 /\ at[1] = <<"h", "o", "m", "e">> /\ at[2] = <<"n", "o", "d", "e">>

\* what makes a shell command line more than one simple command: command
\* substitution, pipe, background, list, subshell, redirection, a new line
ShellSyntax == {";", "&", "|", Backquote, "$", "(", ")", ">", "<", "\n"}

\* exactly one command chmod -R a+rw <path under /home/node/>, then nothing or
\* the suffix 2>/dev/null || true
ExactShape(c) ==
    LET words == Split(Trim(c), {" ", "\t"}) IN
    /\ \/ Len(words) = 4
       \/ Len(words) = 7 /\ SubSeq(words, 5, 7) = <<LitDevNull, LitOrOr, LitTrue>>
    /\ words[1] = LitChmod /\ words[2] = LitDashR /\ words[3] = LitMode
    /\ StartsWith(words[4], LitHome) /\ Len(words[4]) > Len(LitHome)
    /\ \A k \in 1..4 : \A j \in 1..Len(words[k]) : words[k][j] \notin ShellSyntax

\* C4: every string validatePreCommand accepts has as its chmod target a
\* path that lies under /home/node.
C4_AcceptedTargetUnderHome ==
    verdict = "accepted" => UnderHome(ChmodTarget(cmd))

\* C5: validatePreCommand accepts only strings that are exactly one command
\* chmod -R a+rw <path under /home/node/> with the optional suffix, with no
\* substitution, pipe, &, semicolon, second command or redirection elsewhere.
C5_AcceptsOnlyExactShape ==
    verdict = "accepted" => ExactShape(cmd)

\* C6: a service whose condition is a non-empty string not of the form
\* file:<path> is never spawned, and its preCommand is never executed.
C6_UnrecognizedConditionNeverReady ==
    \A i \in DOMAIN rt :
        (/\ services[i].condition # None
         /\ services[i].condition[1] # <<>>
         /\ ~StartsWith(services[i].condition[1], LitFile))
        => rt[i].spawns = 0 /\ rt[i].preRuns = 0

\* C7: a service whose condition is file:<path> with a path that never exists
\* has never been spawned, nor its preCommand run; once its start delay is
\* over it always has a condition check pending, at most one poll interval
\* away, and every failed check schedules the next one poll interval later.
C7_AbsentPathPolledForever ==
    /\ [](\A i \in DOMAIN rt :
            services[i].condition = Some(CondNever) =>
                /\ rt[i].spawns = 0 /\ rt[i].preRuns = 0 /\ ~rt[i].child
                /\ proc = "up" =>
                      \/ rt[i].timer = "start" /\ rt[i].steps = <<>>
                      \/ /\ rt[i].timer = "poll" /\ rt[i].left <= ClaimedPollSeconds
                         /\ Count(rt[i].steps, "retry") = 1)
    /\ [][\A i \in DOMAIN rt :
            (services[i].condition = Some(CondNever) /\ AttemptStep(i))
            => rt'[i].timer = "poll" /\ rt'[i].left = ClaimedPollSeconds]_vars

\* the service has made ten failed checks, and waits for the next
C7_Witness ==
    \E i \in DOMAIN rt :
        /\ services[i].condition = Some(CondNever)
        /\ rt[i].timer = "poll" /\ rt[i].attempt = 10 /\ rt[i].steps = <<"retry">>
        /\ rt[i].left = 7

C9_ConditionRecheckedOnRestart ==
    [][\A i \in DOMAIN rt :
          (/\ services[i].condition = Some(CondFile)
           /\ Crashed(rt[i])
           /\ AttemptStep(i))
          => IF ReadyPath \in files
             THEN rt'[i].child /\ rt'[i].spawns = rt[i].spawns + 1
             ELSE /\ ~rt'[i].child /\ rt'[i].spawns = rt[i].spawns
                  /\ rt'[i].timer = "poll" /\ rt'[i].left = ClaimedPollSeconds]_vars

\* a service that crashed found its path gone at the restart, polled, and is
\* running again
C9_Witness ==
    \E i \in DOMAIN rt :
        /\ services[i].condition = Some(CondFile)
        /\ Crashed(rt[i]) /\ rt[i].crashes = 1
        /\ rt[i].timer = "poll" /\ rt[i].attempt = 2

\* the service has a preCommand the allow-list accepts
HasSafePreCommand(svc) ==
    svc.preCommand # None /\ svc.preCommand[1] # <<>>
    /\ validatePreCommand(svc.preCommand[1])

\* C10: for a service with a preCommand that passes validation, every start
\* attempt that spawns has first run the preCommand, as root, to its end,
\* whatever its exit status: there are as many runs as spawns and the spawn is
\* the last step of the attempt.
C10_PreCommandBeforeSpawn ==
    \A i \in DOMAIN rt :
        HasSafePreCommand(services[i]) =>
            /\ rt[i].preRuns = rt[i].spawns /\ rt[i].blocked = 0
            /\ Count(rt[i].steps, "spawn") > 0 =>
                  /\ rt[i].steps = <<"preCommand", "spawn">>
                  /\ rt[i].preUid = Some(0)
                  /\ rt[i].preExit \in {Some(0), Some(1)}

\* the preCommand failed on a restart and the service is running
C10_Witness ==
    \E i \in DOMAIN rt :
        /\ HasSafePreCommand(services[i])
        /\ rt[i].preExit = Some(1) /\ rt[i].spawns = 2 /\ rt[i].child

----------------------------------------------------------------------------
(* The supervisor process and the errors of its services.                  *)

\* an error has arisen from the instance: its spawn failed, its child exited
\* non-zero or by a signal, its preCommand failed or was blocked, or its
\* condition was found unmet
ServiceError(r) ==
    \/ r.spawnError
    \/ Crashed(r)
    \/ r.preExit = Some(1)
    \/ r.blocked > 0
    \/ Count(r.steps, "retry") > 0

\* C11: no error arising from a service terminates the supervisor: in every
\* state where a spawn has failed, a child has exited non-zero or by a signal,
\* a preCommand has failed or been blocked, or a condition has been found
\* unmet, the supervisor process has not died of an error.
C11_ServiceErrorsNeverTerminate ==
    (\E i \in DOMAIN rt : ServiceError(rt[i])) => proc # "crashed" /\ status # Some(1)

\* C12: the supervisor terminates only on SIGTERM or SIGINT: in every state
\* in which no termination signal has been received, the state in which every
\* registered service has exited with code 0 and no timer is pending
\* included, the process is alive (the deaths by a failed spawn or a failed
\* maintenance call, with status 1, are those of C11 and C16 and are left
\* aside here).
C12_AliveUntilSignalled ==
    (proc # "exited" /\ status # Some(1)) => Alive

\* a termination signal is handled in this step
SignalStep == Alive /\ proc' = "exited"

\* C13: on SIGTERM or SIGINT, whatever the services are doing (waiting on a
\* delay, polling a condition, running), the supervisor exits at once with
\* status 0, nothing of it is left pending, and it stops no child: every
\* child alive before the signal is alive after it.
C13_SignalExitsZeroChildrenKept ==
    /\ [](proc = "exited" => status = Some(0))
    /\ [][SignalStep =>
            /\ status' = Some(0)
            /\ DOMAIN rt' = DOMAIN rt
            /\ \A i \in DOMAIN rt :
                  rt'[i].child = rt[i].child /\ rt'[i].timer = "none"]_vars

\* the supervisor has exited on a signal while the gateway was running and a
\* declared service was polling its condition
C13_Witness ==
    /\ proc = "exited" /\ status = Some(0) /\ Len(rt) = 2
    /\ rt[1].child
    /\ ~rt[2].child /\ Count(rt[2].steps, "retry") = 1

----------------------------------------------------------------------------
(* The descriptor file.                                                    *)

\* startAllServices runs in this step
RegistrationStep == proc \in {"boot", "startupDelay"} /\ (proc' = "up" \/ rt' # <<>>)

\* the list holds the gateway and nothing else
OnlyGateway(list) == Len(list) = 1 /\ list[1].name = "gateway"

\* C14: when services.json does not exist at boot, exactly one service is
\* registered, the gateway, and no warning about the file is logged.
C14_MissingFileGatewayOnly ==
    /\ [](servicesFile = None => ~warned /\ (services = <<>> \/ OnlyGateway(services)))
    /\ [][(servicesFile = None /\ RegistrationStep) =>
            /\ OnlyGateway(services') /\ Len(rt') = 1 /\ rt'[1].spawns = 1
            /\ ~warned']_vars

\* booted without services.json: the gateway runs, alone
C14_Witness ==
    /\ servicesFile = None /\ proc = "up"
    /\ OnlyGateway(services) /\ rt[1].child /\ ~warned

\* C15: when services.json exists but cannot be parsed into a list, a warning
\* is logged and no declared service is registered or spawned; the gateway is
\* registered and started all the same, and the supervisor goes on (it stops
\* then only if the spawn of the gateway itself fails, as in C11).
C15_UnparsableFileWarnsGatewayStarts ==
    /\ [](servicesFile = Some(Unparsable) =>
            \/ services = <<>> /\ ~warned
            \/ OnlyGateway(services) /\ Len(rt) = 1 /\ warned)
    /\ [][(servicesFile = Some(Unparsable) /\ RegistrationStep) =>
            /\ OnlyGateway(services') /\ Len(rt') = 1 /\ rt'[1].spawns = 1
            /\ warned'
            /\ proc' = "up" \/ rt'[1].spawnError]_vars

\* booted on an unparsable services.json: warned, and the gateway runs
C15_Witness ==
    /\ servicesFile = Some(Unparsable) /\ proc = "up"
    /\ OnlyGateway(services) /\ rt[1].child /\ warned

----------------------------------------------------------------------------
(* Maintenance.                                                            *)

\* main runs its maintenance in this step
MaintenanceStep == proc = "boot" /\ proc' \notin {"boot", "exited"}

\* what the run records for a call that threw
Failure(op) ==
    IF op = "rm" THEN "rm failed" ELSE IF op = "rename" THEN "rename failed" ELSE "chmod failed"

\* the run m made the call op, whether it succeeded or not
Attempted(m, op) == \E k \in 1..Len(m) : m[k] \in {op, Failure(op)}

\* the call op of the run m threw
Threw(m, op) == \E k \in 1..Len(m) : m[k] = Failure(op)

\* the run m made a call that failed
SomeFailed(m) == \E k \in 1..Len(m) : m[k] \in {"rm failed", "rename failed", "chmod failed"}

\* C16: each maintenance fixup is fault-tolerant on its own: whichever of the
\* calls fails (deleting the lock, renaming the legacy file, chmod of the
\* state directory), the other fixups are still carried out (the lock is
\* deleted if there is one, the legacy file renamed if it is due, the chmod
\* made) and boot goes on to the startup delay or to registering the services.
C16_FixupFailuresTolerated ==
    [][MaintenanceStep =>
        /\ disk.lock => Attempted(maint', "rm")
        /\ (disk.legacy # None /\ disk.current = None) => Attempted(maint', "rename")
        /\ Attempted(maint', "chmod")
        /\ proc' \in {"startupDelay", "up"} \/ (\E i \in DOMAIN rt' : rt'[i].spawnError)]_vars

\* the run m got to its end: main went on after it
Completed(m) == Attempted(m, "chmod")

\* C17: maintenance is idempotent: whatever the state directory was (legacy
\* file, current file and lock each present or absent), a run of maintenance
\* that follows a completed run performs no rename and no deletion and leaves
\* the three files as they are; when no call of the earlier run failed it
\* leaves the whole disk as it found it.
C17_SecondRunNoOp ==
    [][(MaintenanceStep /\ boots >= 2 /\ Completed(maint)) =>
        /\ ~Attempted(maint', "rename") /\ ~Attempted(maint', "rm")
        /\ disk'.legacy = disk.legacy /\ disk'.current = disk.current
        /\ disk'.lock = disk.lock
        /\ ~SomeFailed(maint) => disk' = disk]_vars

\* the second boot is up on a disk where the first boot renamed the legacy
\* file: its maintenance did nothing but the chmod
C17_Witness ==
    /\ boots = 2 /\ proc = "up"
    /\ disk = [legacy |-> None, current |-> Some("old list"), lock |-> FALSE, mode |-> "0700"]
    /\ maint = <<"chmod">>

\* C18: the legacy file is renamed to the current name if and only if the
\* legacy file exists and the current one does not (whenever migrateDoctor is
\* run: a failed deletion of the lock ends main before it, C16); a rename
\* moves the legacy content to the current name; when the current file
\* exists, neither file is touched.
C18_RenameIffLegacyOnly ==
    [][MaintenanceStep =>
        /\ Attempted(maint', "rename") => (disk.legacy # None /\ disk.current = None)
        /\ (disk.legacy # None /\ disk.current = None /\ ~Threw(maint', "rm"))
               => Attempted(maint', "rename")
        /\ (disk.legacy # None /\ disk.current = None /\ Completed(maint'))
               => disk'.current = disk.legacy /\ disk'.legacy = None
        /\ disk.current # None =>
               disk'.current = disk.current /\ disk'.legacy = disk.legacy]_vars

\* a boot is up whose maintenance renamed the legacy file
C18_Witness ==
    /\ proc = "up" /\ boots = 1
    /\ maint = <<"rename", "chmod">>
    /\ disk.legacy = None /\ disk.current = Some("old list")

----------------------------------------------------------------------------
(* Start delay and identity.                                               *)

\* the start delay the descriptor asks for, in seconds
ClaimedStartDelay(svc) == IF svc.startDelay = None THEN 0 ELSE svc.startDelay[1]

\* instance i makes its first start attempt in this step
FirstAttempt(i) == i \in DOMAIN rt /\ rt[i].steps = <<>> /\ rt'[i].steps # <<>>

\* C19: a declared service with startDelay = d > 0 is registered with a start
\* timer of d seconds and nothing attempted; the timer runs down one second
\* per second, and the first start attempt is made when it is at zero, not
\* before; once over, the start timer is never armed again: after an exit a
\* restart waits restartDelay only, and the attempt is made when that is over.
C19_StartDelayOnceBeforeFirstAttempt ==
    /\ [](\A i \in DOMAIN rt :
            rt[i].timer = "start" =>
                /\ ClaimedStartDelay(services[i]) > 0
                /\ rt[i].left <= ClaimedStartDelay(services[i])
                /\ rt[i].steps = <<>> /\ rt[i].spawns = 0 /\ rt[i].preRuns = 0
                /\ ~rt[i].child /\ rt[i].lastExit = None)
    /\ [][\A i \in DOMAIN rt' :
            /\ (RegistrationStep /\ proc' = "up" /\ i > 1 /\ ClaimedStartDelay(services'[i]) > 0) =>
                  /\ rt'[i].timer = "start"
                  /\ rt'[i].left = ClaimedStartDelay(services'[i])
                  /\ rt'[i].steps = <<>> /\ rt'[i].spawns = 0
            /\ (i \in DOMAIN rt /\ proc' = "up" /\ rt[i].timer = "start" /\ rt'[i] # rt[i]) =>
                  \/ rt'[i] = [rt[i] EXCEPT !.left = @ - 1]
                  \/ rt[i].left = 0 /\ FirstAttempt(i) /\ rt'[i].timer # "start"
            /\ (FirstAttempt(i) /\ ClaimedStartDelay(services[i]) > 0) =>
                  rt[i].timer = "start" /\ rt[i].left = 0
            /\ (i \in DOMAIN rt /\ rt[i].timer # "start") => rt'[i].timer # "start"
            /\ (i \in DOMAIN rt /\ CrashStep(i)) =>
                  rt'[i].timer = "restart" /\ rt'[i].left = ClaimedRestartDelay(services[i])
            /\ (i \in DOMAIN rt /\ RestartFired(i)) =>
                  rt[i].left = 0 /\ rt'[i].steps # <<>>]_vars

\* a service with a start delay of 2 s is running again after a restart
C19_Witness ==
    \E i \in DOMAIN rt :
        /\ proc = "up" /\ services[i].startDelay = Some(2)
        /\ rt[i].spawns = 2 /\ rt[i].crashes = 1 /\ rt[i].child

\* C20: every service command, of the gateway and of declared services, at
\* the first start and at every restart, is spawned with uid 1000, gid 1000
\* and HOME=/home/node; nothing else is run for a service but its preCommand,
\* which runs with the uid of the supervisor (root) and only when it passed
\* validation.
C20_ServicesDropPrivileges ==
    \A i \in DOMAIN rt :
        /\ rt[i].spawns > 0 =>
              /\ rt[i].childUid = Some(1000) /\ rt[i].childGid = Some(1000)
              /\ rt[i].childHome = Some("/home/node")
        /\ rt[i].spawns = 0 => rt[i].childUid = None /\ rt[i].preUid = None
        /\ rt[i].preUid # None =>
              /\ rt[i].preUid = Some(0)
              /\ HasSafePreCommand(services[i])
        /\ rt[i].preRuns > 0 => HasSafePreCommand(services[i])

\* the gateway and a declared service with a validated preCommand have both
\* been restarted and are running
C20_Witness ==
    /\ proc = "up" /\ Len(rt) = 2
    /\ rt[1].spawns = 2 /\ rt[1].child
    /\ rt[2].spawns = 2 /\ rt[2].child /\ rt[2].preUid = Some(0)

----------------------------------------------------------------------------
(* Timing of checks, restarts and boot.                                    *)

\* C21: a service whose condition is not met is checked again 60 seconds
\* later, every time, until the condition is met: every check that finds the
\* path absent leaves the next check 60 seconds away.
C21_RecheckedEvery60Seconds ==
    [][\A i \in DOMAIN rt :
          (AttemptStep(i) /\ rt'[i].timer = "poll") => rt'[i].left = 60]_vars

\* C22: with a global startup delay of N > 0 seconds nothing is registered or
\* spawned, the gateway included, until maintenance has been carried out and
\* a timer of N seconds armed after it has run down to zero; the delay is
\* entered from boot only, never afterwards (a restart waits restartDelay
\* only), and a declared service with a startDelay is then registered with its
\* full startDelay still to wait.
C22_GlobalDelayBeforeRegistration ==
    /\ [](/\ proc \in {"boot", "startupDelay"} => services = <<>> /\ rt = <<>>
          /\ proc = "startupDelay" =>
                /\ startupDelay > 0 /\ bootLeft <= startupDelay
                /\ Completed(maint))
    /\ [][/\ (proc = "boot" /\ startupDelay > 0 /\ proc' \notin {"boot", "exited"}) =>
                proc' = "startupDelay" /\ bootLeft' = startupDelay
          /\ (proc = "startupDelay" /\ proc' = "startupDelay" /\ bootLeft' # bootLeft) =>
                bootLeft > 0 /\ bootLeft' = bootLeft - 1
          /\ (RegistrationStep /\ startupDelay > 0) =>
                /\ proc = "startupDelay" /\ bootLeft = 0
                /\ \A i \in DOMAIN rt' :
                      (i > 1 /\ proc' = "up" /\ ClaimedStartDelay(services'[i]) > 0) =>
                          rt'[i].timer = "start"
                          /\ rt'[i].left = ClaimedStartDelay(services'[i])
          /\ proc' = "startupDelay" => proc \in {"boot", "startupDelay"}
          /\ \A i \in DOMAIN rt : RestartFired(i) => rt[i].left = 0]_vars

\* booted with a startup delay of 2 s: the declared service, itself delayed by
\* 2 s, has been restarted once and runs
C22_Witness ==
    /\ startupDelay = 2 /\ proc = "up" /\ Len(rt) = 2
    /\ services[2].startDelay = Some(2)
    /\ rt[2].spawns = 2 /\ rt[2].child

----------------------------------------------------------------------------
(* Several declared services.                                              *)

\* the entries of the array that are descriptors
ValidEntries(items) == SelectSeq(items, LAMBDA e : e.name # "null")

\* C23: configuration errors degrade per item: when services.json is an array
\* with an invalid entry (null) in it, only that entry is skipped: once boot
\* is over every other entry, before or after it, is registered.
C23_OnlyInvalidEntrySkipped ==
    (proc = "up" /\ servicesFile # None /\ servicesFile[1].json = "array") =>
        /\ Len(services) = 1 + Len(ValidEntries(servicesFile[1].items))
        /\ \A k \in 1..Len(ValidEntries(servicesFile[1].items)) :
              services[k + 1] = ValidEntries(servicesFile[1].items)[k]

\* instance i makes a transition in this step: something of it other than
\* the seconds left on its timer changes
Transition(i) == [rt'[i] EXCEPT !.left = 0] # [rt[i] EXCEPT !.left = 0]

----------------------------------------------------------------------------
(* The order of boot.                                                      *)

\* the step x is in the log, and before position k
Earlier(log, x, k) == {g \in 1..(k - 1) : log[g] = x} # {}

\* a step of boot about the descriptor file or a declared service
AboutDeclared(step) ==
    \/ step[1] \in {"readFileSync", "warn"}
    \/ step[1] \in {"registered", "startService", "setTimeout"} /\ step[2] # "gateway"

\* C25: the gateway has no condition and no start delay; it is registered and
\* its first start attempt made before services.json is read and before any
\* declared service is registered, started or given a timer.
C25_GatewayFirst ==
    /\ [](services # <<>> =>
            /\ services[1].name = "gateway"
            /\ services[1].condition = None /\ services[1].startDelay = None
            /\ rt[1].spawns >= 1)
    /\ [](\A k \in 1..Len(bootLog) :
            /\ AboutDeclared(bootLog[k]) =>
                  Earlier(bootLog, <<"startService", "gateway">>, k)
            /\ bootLog[k] = <<"startService", "gateway">> =>
                  Earlier(bootLog, <<"registered", "gateway">>, k))
    /\ [][RegistrationStep => rt'[1].spawns = 1 /\ rt'[1].steps = <<"spawn">>]_vars

\* boot on a services.json with one entry: the file was read, the declared
\* service runs, and so does the gateway
C25_Witness ==
    /\ proc = "up" /\ Len(services) = 2
    /\ Earlier(bootLog, <<"readFileSync", "services.json">>, Len(bootLog))
    /\ rt[1].child /\ rt[2].child

\* C26: backoff is constant: after the 1st, 2nd, ..., k-th exit that is not a
\* clean one the restart timer is armed with restartDelay seconds, the same
\* each time, and the start attempt is made when it has run down; after every
\* check of a condition that finds the path absent, the first and every later
\* one, the next check is one poll interval (30 s) away; a pending timer only
\* runs down, one second per second.
C26_ConstantBackoff ==
    [][\A i \in DOMAIN rt' :
          /\ (i \in DOMAIN rt /\ CrashStep(i)) =>
                rt'[i].timer = "restart" /\ rt'[i].left = ClaimedRestartDelay(services[i])
          /\ (i \in DOMAIN rt /\ RestartFired(i)) => rt[i].left = 0
          /\ (proc' = "up" /\ rt'[i].timer = "poll"
              /\ (i \notin DOMAIN rt \/ AttemptStep(i))) =>
                rt'[i].left = ClaimedPollSeconds
          /\ (i \in DOMAIN rt /\ proc' = "up" /\ ~AttemptStep(i)
              /\ rt[i].timer # "none" /\ rt'[i].left # rt[i].left) =>
                rt'[i].timer = rt[i].timer /\ rt'[i].left = rt[i].left - 1]_vars

\* a service has crashed a second time, and its restart timer is armed with
\* the same 2 s as the first time
C26_Witness ==
    \E i \in DOMAIN rt :
        /\ proc = "up" /\ services[i].restartDelay = Some(2)
        /\ rt[i].crashes = 2 /\ rt[i].timer = "restart" /\ rt[i].left = 2

\* the descriptor has a condition and a start delay
DelayedAndGated(svc) == svc.condition # None /\ ClaimedStartDelay(svc) > 0

\* C27: a declared service with a condition and a startDelay of d > 0 is
\* registered with the start timer at d and no check of its condition made
\* or scheduled; while the start timer is pending no check has been made; the
\* first check, and the first poll timer, come at the step where the start
\* timer has run down to zero.
C27_StartDelayBeforeCondition ==
    /\ [](\A i \in DOMAIN rt :
            (DelayedAndGated(services[i]) /\ rt[i].timer = "start") =>
                /\ rt[i].steps = <<>> /\ rt[i].attempt = 0
                /\ rt[i].left <= ClaimedStartDelay(services[i]))
    /\ [][\A i \in DOMAIN rt' :
            DelayedAndGated(services'[i]) =>
                /\ (RegistrationStep /\ proc' = "up") =>
                      /\ rt'[i].timer = "start"
                      /\ rt'[i].left = ClaimedStartDelay(services'[i])
                      /\ rt'[i].steps = <<>>
                /\ (i \in DOMAIN rt /\ rt[i].steps = <<>> /\ rt'[i].steps # <<>>) =>
                      rt[i].timer = "start" /\ rt[i].left = 0
                /\ (i \in DOMAIN rt /\ rt[i].timer = "start" /\ rt'[i].timer = "start") =>
                      rt'[i].left \in {rt[i].left, rt[i].left - 1}]_vars

\* a service with file:/r and a start delay of 2 s has waited its start
\* delay, found the path absent and is polling
C27_Witness ==
    \E i \in DOMAIN rt :
        /\ proc = "up" /\ services[i].condition = Some(CondFile)
        /\ services[i].startDelay = Some(2)
        /\ rt[i].timer = "poll" /\ rt[i].steps = <<"waiting", "retry">> /\ rt[i].spawns = 0

\* in the run m every call a made comes before every call b made
Ordered(m, a, b) ==
    \A ka \in 1..Len(m), kb \in 1..Len(m) :
        (m[ka] \in {a, Failure(a)} /\ m[kb] \in {b, Failure(b)}) => ka < kb

\* a service is registered in this boot only after main's maintenance
RegisteredAfterMaintenance ==
    \A k \in 1..Len(bootLog) :
        bootLog[k][1] = "registered" => Earlier(bootLog, <<"main", "maintenance">>, k)

\* C28 as stated: at every boot the fixups run in the order legacy rename,
\* lock deletion, chmod of the state directory, and before any service is
\* registered.
C28_RenameThenLockThenChmod ==
    /\ []RegisteredAfterMaintenance
    /\ [][MaintenanceStep =>
            /\ Ordered(maint', "rename", "rm")
            /\ Ordered(maint', "rm", "chmod")
            /\ Ordered(maint', "rename", "chmod")]_vars

\* C28, amended: at every boot the fixups are attempted in the order lock
\* deletion, legacy rename, chmod of the state directory (each of the first
\* two only when its file calls for it); a service is registered only after
\* maintenance, and only in a boot whose maintenance got to the chmod.
C28_LockThenRenameThenChmod ==
    /\ []RegisteredAfterMaintenance
    /\ [][MaintenanceStep =>
            /\ Ordered(maint', "rm", "rename")
            /\ Ordered(maint', "rename", "chmod")
            /\ Ordered(maint', "rm", "chmod")
            /\ services' # <<>> => Completed(maint')]_vars

\* a boot is up whose maintenance deleted the lock, then renamed the legacy
\* file, then made the chmod
C28_Witness ==
    /\ proc = "up" /\ rt[1].child
    /\ maint = <<"rm", "rename", "chmod">>

\* the positions of the log at which a listener of a termination signal is
\* installed
Installs(log) == {k \in 1..Len(log) : log[k][1] = "process.on"}

\* C29 as stated: signal handling is installed as the last step of boot,
\* after maintenance, the startup delay and every registration, so that no
\* handler is in place while maintenance or the startup delay is in progress.
C29_HandlersInstalledLast ==
    /\ proc \in {"boot", "startupDelay"} => Installs(bootLog) = {}
    /\ \A k \in Installs(bootLog), j \in 1..Len(bootLog) :
           bootLog[j][1] # "process.on" => j < k

\* C29, amended: the listeners of SIGTERM and SIGINT are installed before
\* main is called, ahead of maintenance, the startup delay and every
\* registration, so a handler is in place while the startup delay is in
\* progress.
HandlersInstalledFirst ==
    /\ \E k \in Installs(bootLog) : bootLog[k][2] = "SIGTERM"
    /\ \E k \in Installs(bootLog) : bootLog[k][2] = "SIGINT"
    /\ \A k \in Installs(bootLog), j \in 1..Len(bootLog) :
           bootLog[j][1] # "process.on" => k < j

\* a signal during the startup delay ends the supervisor with status 0
\* before anything is registered
C29_HandlersInstalledBeforeMain ==
    /\ []HandlersInstalledFirst
    /\ [][(proc = "startupDelay" /\ proc' = "exited") =>
            (status' = Some(0) /\ services' = <<>> /\ rt' = <<>>)]_vars

\* the supervisor was signalled while it awaited the startup delay
C29_Witness ==
    /\ proc = "exited" /\ status = Some(0)
    /\ bootLog[Len(bootLog)] = <<"main", "await">>
    /\ services = <<>>

\* the reads of services.json this boot has made
Reads(log) == {k \in 1..Len(log) : log[k] = <<"readFileSync", "services.json">>}

\* what a file that parses to an array of descriptors declares
DeclaredIn(file) == IF file = None THEN <<>> ELSE file[1].items

\* C30: services.json is read once, at boot, and what was registered then,
\* every field of every descriptor, stays as it is whatever becomes of the
\* file and however often services restart, for as long as the process lives.
C30_DescriptorsFixedAtBoot ==
    /\ [](Cardinality(Reads(bootLog)) <= 1)
    /\ [][(services = <<>> /\ services' # <<>>) =>
            (services' = <<gateway>> \o DeclaredIn(servicesFile)
             /\ Cardinality(Reads(bootLog')) = (IF servicesFile = None THEN 0 ELSE 1))]_vars
    /\ [][(services # <<>> /\ boots' = boots) => services' = services]_vars

\* a declared service was restarted, with the descriptor of boot, after the
\* file it came from had been removed
C30_Witness ==
    /\ proc = "up" /\ servicesFile = None
    /\ Len(services) = 2 /\ services[2].restartDelay = Some(0)
    /\ rt[2].spawns = 2 /\ rt[2].child
    /\ Cardinality(Reads(bootLog)) = 1

----------------------------------------------------------------------------
(* Claims C31 to C36.                                                      *)

\* the names a directory of skills lists
NamesIn(o) == IF o = None THEN {} ELSE {o[1][j] : j \in 1..Len(o[1])}

\* the skills /app/skills and /skills-custom list
Listed(sd) == NamesIn(sd.bundled) \cup NamesIn(sd.custom)

\* main has run: the process left "boot"
MainStep == proc = "boot" /\ proc' # "boot"

\* C31: setupSkills is called once per boot, and a skill that cannot be
\* linked or a package.json that cannot be read is passed over: every other
\* skill is linked, every linkable bin is linked, and maintenance and the
\* registration of the services follow.
C31_SkillFailuresIgnored ==
    /\ [](Count(bootLog, <<"main", "setupSkills">>) <= 1)
    /\ [][MainStep =>
            /\ Count(bootLog', <<"main", "setupSkills">>) = 1
            /\ \A n \in Listed(skillDirs) \ skillDirs.refused : Has(skillRun'.dir, n)
            /\ \A n \in Listed(skillDirs) \ skillDirs.refused :
                   skillDirs.pkg[n] = "bin" => n \in skillRun'.bins
            /\ Count(bootLog', <<"main", "maintenance">>) = 1
            /\ services' # <<>>]_vars

\* the string is a decimal integer: an optional sign, then digits only
\* (blanks around it do not count)
IsInteger(t) ==
    LET u == Trim(t)
        body == IF u # <<>> /\ Head(u) \in {"-", "+"} THEN Tail(u) ELSE u
    IN  body # <<>> /\ \A k \in 1..Len(body) : IsDigit(body[k])

\* the integer such a string denotes
IntegerOf(t) ==
    LET u == Trim(t)
        body == IF Head(u) \in {"-", "+"} THEN Tail(u) ELSE u
    IN  (IF Head(u) = "-" THEN -1 ELSE 1) * Decimal(body)

\* the seconds C32 has main wait: 0 when the variable is unset, empty or not
\* a number, N for the integer N > 0
ClaimedStartupDelay(e) ==
    IF e = None \/ e[1] = <<>> \/ ~IsInteger(e[1]) THEN 0
    ELSE IF IntegerOf(e[1]) > 0 THEN IntegerOf(e[1]) ELSE 0

\* C32: main registers the services without waiting when STARTUP_DELAY is
\* unset, empty or not a number, and after N seconds when it is the integer
\* N > 0; the value is read once.
C32_StartupDelayParsed ==
    [][/\ MainStep =>
            IF ClaimedStartupDelay(env) > 0
            THEN proc' = "startupDelay" /\ bootLeft' = ClaimedStartupDelay(env)
            ELSE services' # <<>>
       /\ startupDelay' = startupDelay /\ env' = env]_vars

\* instance i makes a check that finds its condition unmet
FailedCheck(i) ==
    /\ i \in DOMAIN rt'
    /\ rt'[i].timer = "poll" /\ rt'[i].left = ClaimedPollSeconds
    /\ (i \in DOMAIN rt => rt[i].timer # "poll" \/ rt[i].left = 0)

\* the failed checks instance i has made since its waiting began: a check
\* made by a poll timer follows those counted so far, any other is the first
ChecksBefore(i) ==
    IF i \in DOMAIN rt /\ rt[i].timer = "poll" THEN rt[i].attempt ELSE 0

\* C33: the waiting line is logged on the first failed check of a waiting
\* episode and then on every tenth after it, on no other; the count starts
\* at 0 again with every start delay and every restart.
C33_WaitingLogThrottled ==
    [][\A i \in DOMAIN rt' :
          FailedCheck(i) =>
              /\ Count(rt'[i].steps, "waiting") =
                    (IF ChecksBefore(i) \in {0, 10, 20} THEN 1 ELSE 0)
              /\ ChecksBefore(i) < 20 => rt'[i].attempt = ChecksBefore(i) + 1
              /\ (i \in DOMAIN rt /\ rt[i].timer = "restart") =>
                    Count(rt'[i].steps, "waiting") = 1 /\ rt'[i].attempt = 1]_vars

\* a service that had crashed and was restarted has logged again on the
\* eleventh failed check of its wait
C33_Witness ==
    \E i \in DOMAIN rt :
        /\ proc = "up" /\ rt[i].crashes > 0
        /\ rt[i].timer = "poll" /\ rt[i].attempt = 11
        /\ rt[i].steps = <<"waiting", "retry">>

\* C34: while the supervisor runs, every instance has at most one live child
\* and at most one pending timer, never both, and has neither exactly when
\* its last child exited with code 0.
C34_OneChildOrOneTimer ==
    (proc \in {"up", "drained"}) =>
        \A i \in DOMAIN rt :
            /\ rt[i].children <= 1 /\ rt[i].timers <= 1
            /\ rt[i].children + rt[i].timers <= 1
            /\ rt[i].child <=> rt[i].children = 1
            /\ (rt[i].timer # "none") <=> rt[i].timers = 1
            /\ (rt[i].children + rt[i].timers = 0) <=> CleanExit(rt[i])

\* one instance runs its second child, one waits on a poll timer after a
\* crash, one is done
C34_Witness ==
    /\ proc = "up" /\ Len(rt) = 2
    /\ rt[1].children = 1 /\ rt[1].timers = 0 /\ rt[1].spawns = 2
    /\ rt[2].children = 0 /\ rt[2].timers = 1 /\ rt[2].timer = "poll" /\ rt[2].crashes = 1

\* the service has a preCommand the allow-list accepts
PreAllowed(svc) == svc.preCommand = Some(PreSafe)

\* C35: a service with an accepted preCommand has run it as often as it has
\* been spawned, and a check that finds the condition unmet runs none.
C35_PreCommandOncePerSpawn ==
    /\ [](\A i \in DOMAIN rt : PreAllowed(services[i]) => rt[i].preRuns = rt[i].spawns)
    /\ [][\A i \in DOMAIN rt' :
            (PreAllowed(services'[i]) /\ FailedCheck(i)) =>
                /\ Count(rt'[i].steps, "preCommand") = 0
                /\ rt'[i].preRuns = (IF i \in DOMAIN rt THEN rt[i].preRuns ELSE 0)
                /\ rt'[i].spawns = (IF i \in DOMAIN rt THEN rt[i].spawns ELSE 0)]_vars
    /\ [][\A i \in DOMAIN rt :
            (PreAllowed(services[i]) /\ proc' = "up" /\ rt'[i].spawns # rt[i].spawns) =>
                /\ rt'[i].spawns = rt[i].spawns + 1
                /\ rt'[i].preRuns = rt[i].preRuns + 1
                /\ rt'[i].steps = <<"preCommand", "spawn">>]_vars

\* a service with a condition and an accepted preCommand runs its second
\* child, the preCommand having run twice
C35_Witness ==
    \E i \in DOMAIN rt :
        /\ proc = "up" /\ PreAllowed(services[i]) /\ services[i].condition # None
        /\ rt[i].child /\ rt[i].spawns = 2 /\ rt[i].preRuns = 2 /\ rt[i].crashes = 1

\* the instance is as it was, the seconds left on its timer aside
SameButClock(r, q) == [q EXCEPT !.left = r.left] = r

\* the condition of the service, a path to wait for, is met
ReadyNow(svc) == svc.condition = Some(CondFile) => ReadyPath \in files

\* C36: from the successful condition check of a start attempt to its spawn
\* no callback of another service and no signal handler runs, the seconds a
\* preCommand takes included; and a check that finds the condition unmet is
\* followed by no spawn in that call.
C36_StartAttemptUninterrupted ==
    /\ [][running # None =>
            /\ proc' # "exited"
            /\ services' = services
            /\ proc' = "up" =>
                  \A j \in DOMAIN rt : j # running[1].svc => SameButClock(rt[j], rt'[j])
            /\ running' # None => running'[1].svc = running[1].svc]_vars
    /\ [][(running = None /\ running' # None) => ReadyNow(services[running'[1].svc])]_vars
    /\ [][\A i \in DOMAIN rt :
            /\ (proc = "up" /\ rt'[i].spawns # rt[i].spawns) =>
                  /\ running # None /\ running[1].svc = i /\ running' = None
                  /\ rt'[i].spawns = rt[i].spawns + 1
                  /\ rt'[i].steps[Len(rt'[i].steps)] = "spawn"
            /\ (proc = "up" /\ FailedCheck(i)) =>
                  running = None /\ running' = None /\ rt'[i].spawns = rt[i].spawns]_vars

\* the preCommand of the declared service has been executing for a while,
\* the gateway's restart timer is due and its callback has not run
C36_Witness ==
    /\ proc = "up" /\ running # None
    /\ running[1].svc = 2 /\ running[1].at = "preCommand" /\ running[1].took > 0
    /\ rt[1].timer = "restart" /\ rt[1].left = 0 /\ ~rt[1].child

====
